---- MODULE Spec2Model ----
(***************************************************************************)
(* RoPE fusion (fuse_rotary_positional_embeddings.cpp): the fusion rules,  *)
(* their pattern templates and callbacks, the cross-match sharing pass and *)
(* the pipeline that RoPEFusion::run_on_model registers, over a small IR.  *)
(***************************************************************************)
EXTENDS Integers, Sequences, FiniteSets, TLC

VARIABLES
    nodes,            \* the IR: node id -> node (op, inputs, shapes, constant data, RoPE config)
    scen,             \* which graph the run started from (fixed along a behaviour)
    support_2d_rope,  \* RoPEFusion::m_support_2d_rope
    run,              \* number of run_on_model calls started
    model,            \* the model the current run_on_model call works on
    done,             \* the models a run_on_model call has returned for
    tick,             \* flips with every step the pass manager takes
    pass,             \* index of the registered rule now traversing the model (0: no run active)
    todo,             \* candidate roots still to be offered to the current rule
    last,             \* the last candidate offered: rule, root, whether it matched, binding, symbols
    ret,              \* what the last callback returned: "none", "true", "false", "throw"
    m_inv_freq,       \* RoPEShareCosSin::m_inv_freq          (0: null)
    m_shared_inputs,  \* RoPEShareCosSin::m_shared_inputs     (0: null)
    m_shared_cos0,    \* RoPEShareCosSin::m_shared_cos0       (0: null)
    m_shared_sin0,    \* RoPEShareCosSin::m_shared_sin0       (0: null)
    classes,          \* the registered classes: C++ base, parent type tag, extension or not
    cast              \* the last type query: function, value, Type and what it returned

vars == <<nodes, scen, support_2d_rope, run, model, done, tick, pass, todo, last, ret,
          m_inv_freq, m_shared_inputs, m_shared_cos0, m_shared_sin0, classes, cast>>

fusion == <<nodes, scen, support_2d_rope, run, model, done, tick, pass, todo, last, ret,
            m_inv_freq, m_shared_inputs, m_shared_cos0, m_shared_sin0>>

typesys == <<classes, cast>>

share == <<m_inv_freq, m_shared_inputs, m_shared_cos0, m_shared_sin0>>

----------------------------------------------------------------------------
(* The IR.  A node output is <<node id, port>>; a dimension >= 0 is static, *)
(* a dimension < 0 is a dynamic dimension carrying the symbol of that name. *)

EmptyFn == [x \in {} |-> 0]

\* op::internal::RoPE::Config, as the default constructor leaves it
Config ==
    [slice_start |-> 0, slice_stop |-> 0, input_trans0213 |-> FALSE,
     output_trans0213 |-> FALSE, is_interleaved |-> FALSE, rotary_ndims |-> 0,
     is_chatglm |-> FALSE, support_2d_rope |-> FALSE, is_qwen |-> FALSE,
     use_rope_cache |-> FALSE, head_cnt |-> 0, head_size |-> 0,
     gather_position_arg_id |-> 0]

NoAttr == EmptyFn

\* a node with one output
Op(op, ins, shape, attr) ==
    [op |-> op, ins |-> ins, shp |-> <<shape>>, et |-> "f32", val |-> <<>>,
     attr |-> attr, cfg |-> EmptyFn, rt |-> {}, mdl |-> 1]

\* a node with several outputs (Split, VariadicSplit)
OpN(op, ins, shapes, attr) == [Op(op, ins, <<>>, attr) EXCEPT !.shp = shapes]

Const(et, shape, val) == [Op("Constant", <<>>, shape, NoAttr) EXCEPT !.et = et, !.val = val]

Param(et, shape) == [Op("Parameter", <<>>, shape, NoAttr) EXCEPT !.et = et]

Result(in) == Op("Result", <<in>>, <<>>, NoAttr)

RoPE(ins, config, shape) == [Op("RoPE", ins, shape, NoAttr) EXCEPT !.cfg = config]

O(n) == <<n, 0>>

ShapeOf(g, v) == g[v[1]].shp[v[2] + 1]

\* the nodes that read an output of n
Consumers(g, n) == {c \in DOMAIN g : \E i \in DOMAIN g[c].ins : g[c].ins[i][1] = n}

\* the inputs of the graph that read output 0 of n, as <<consumer, input index>>
TargetInputs(g, n) ==
    {<<c, i>> \in (DOMAIN g) \X (1..8) : i \in DOMAIN g[c].ins /\ g[c].ins[i] = <<n, 0>>}

\* ov::replace_node(target, replacement): every consumer of an output of
\* target reads the same output of replacement instead
ReplaceNode(g, target, replacement) ==
    [n \in DOMAIN g |->
        [g[n] EXCEPT !.ins = [i \in DOMAIN @ |->
            IF @[i][1] = target /\ n # replacement THEN <<replacement, @[i][2]>> ELSE @[i]]]]

\* Node::set_argument(position, value); position = input count appends
SetArgument(g, n, position, value) ==
    [g EXCEPT ![n].ins =
        IF position + 1 > Len(@) THEN Append(@, value) ELSE [@ EXCEPT ![position + 1] = value]]

RECURSIVE Reach(_, _)
Reach(g, S) ==
    LET T == S \cup UNION {{g[n].ins[i][1] : i \in DOMAIN g[n].ins} : n \in S}
    IN  IF T = S THEN S ELSE Reach(g, T)

\* the nodes of model k: whatever a Result of the model depends on
Live(g, k) == Reach(g, {n \in DOMAIN g : g[n].op = "Result" /\ g[n].mdl = k})

RECURSIVE SortedSeq(_)
SortedSeq(S) ==
    IF S = {} THEN <<>>
    ELSE LET lo == CHOOSE x \in S : \A y \in S : x <= y IN <<lo>> \o SortedSeq(S \ {lo})

IsCommutative(op) == op \in {"Add", "Multiply"}

----------------------------------------------------------------------------
(* Symbols resolved during one match attempt.                               *)

IntV(v) == [k |-> "int", v |-> v, g |-> <<>>]
DynV(v) == [k |-> "dyn", v |-> v, g |-> <<>>]
DblV(v) == [k |-> "dbl", v |-> v, g |-> <<>>]
GrpV(s) == [k |-> "grp", v |-> 0, g |-> s]

DimV(d) == IF d >= 0 THEN IntV(d) ELSE DynV(d)
ElemV(et, v) == IF et = "f32" THEN DblV(v) ELSE IntV(v)

is_integer(s) == s.k = "int"
is_static(d) == d >= 0

----------------------------------------------------------------------------
(* Pattern templates: pattern-node name -> pattern node.                    *)

Lit(v) == [t |-> "lit", v |-> v, s |-> "", d |-> 1]
Sym(s) == [t |-> "sym", v |-> 0, s |-> s, d |-> 1]
Wild == [t |-> "any", v |-> 0, s |-> "", d |-> 1]
Grp(s) == [t |-> "grp", v |-> 0, s |-> s, d |-> 1]
GSym(s) == [t |-> "gsym", v |-> 0, s |-> s, d |-> 1]
GDiv(s, d) == [t |-> "gsym", v |-> 0, s |-> s, d |-> d]

NoPred == [rank |-> -1, shp |-> <<>>, et |-> "", fn |-> ""]
Rank(r) == [NoPred EXCEPT !.rank = r]
Shape(items) == [NoPred EXCEPT !.shp = <<items>>]
Type(et) == [NoPred EXCEPT !.et = et]

PNode(k, ops, ins, attr, pred, items) ==
    [k |-> k, ops |-> ops, ins |-> ins, attr |-> attr, pred |-> pred, items |-> items]

PAny(pred) == PNode("any", {}, <<>>, NoAttr, pred, <<>>)
PWrap(op, ins, attr, pred) == PNode("wrap", {op}, ins, attr, pred, <<>>)
POpt(op, ins) == PNode("opt", {op}, ins, NoAttr, NoPred, <<>>)
POr(alts) == PNode("or", {}, alts, NoAttr, NoPred, <<>>)
PKonst(k, items) == PNode(k, {"Constant"}, <<>>, NoAttr, NoPred, items)
PConst(items) == PKonst("const", items)
PGConst(items) == PKonst("gconst", items)

IntMax == 2147483647

\* literal constants that occur as inputs of several pattern nodes, and the
\* unconstrained any_input() nodes (each use is a pattern node of its own)
Literals ==
    [k_m1 |-> PConst(<<Lit(-1)>>), k_0 |-> PConst(<<Lit(0)>>), k_1 |-> PConst(<<Lit(1)>>),
     k_2 |-> PConst(<<Lit(2)>>), k_3 |-> PConst(<<Lit(3)>>),
     k_max |-> PConst(<<Lit(IntMax)>>),
     k_0213 |-> PConst(<<Lit(0), Lit(2), Lit(1), Lit(3)>>),
     any1 |-> PAny(NoPred), any2 |-> PAny(NoPred), any3 |-> PAny(NoPred),
     any4 |-> PAny(NoPred), any5 |-> PAny(NoPred), any6 |-> PAny(NoPred)]

----------------------------------------------------------------------------
(* The matcher.  A match state is [ok, pm, sym]: pm is the pattern_map,    *)
(* sym the symbol table.  The inputs of a commutative node are aligned in   *)
(* the written order first and in the other order if that fails.  orc.oob  *)
(* is the value an out-of-bounds read returns.                              *)

Fail(st) == [st EXCEPT !.ok = FALSE]

Bind(st, name, gv) == [st EXCEPT !.pm = (name :> gv) @@ @]

\* a symbol seen at one more place: bound on first sight, compared afterwards
BindSym(st, name, val) ==
    IF name = "" THEN st
    ELSE IF name \in DOMAIN st.sym
         THEN (IF st.sym[name] = val THEN st ELSE Fail(st))
         ELSE [st EXCEPT !.sym = (name :> val) @@ @]

GroupAt(items) == IF \E i \in DOMAIN items : items[i].t = "grp"
                  THEN CHOOSE i \in DOMAIN items : items[i].t = "grp" ELSE 0

RECURSIVE MatchDims(_, _, _, _)
MatchDims(items, shape, i, st) ==
    IF ~st.ok \/ i > Len(items) THEN st
    ELSE LET gi == GroupAt(items)
             extra == Len(shape) - Len(items)
             at == IF gi # 0 /\ i > gi THEN i + extra ELSE i
             it == items[i]
             s1 == CASE it.t = "grp" -> BindSym(st, it.s, GrpV(SubSeq(shape, i, i + extra)))
                     [] it.t = "sym" -> BindSym(st, it.s, DimV(shape[at]))
                     [] it.t = "lit" -> IF shape[at] = it.v THEN st ELSE Fail(st)
                     [] OTHER -> st
         IN  MatchDims(items, shape, i + 1, s1)

\* pattern::shape_matches("[...]")
ShapeMatches(items, shape, st) ==
    IF GroupAt(items) = 0 /\ Len(shape) # Len(items) THEN Fail(st)
    ELSE IF GroupAt(items) # 0 /\ Len(shape) < Len(items) - 1 THEN Fail(st)
    ELSE MatchDims(items, shape, 1, st)

RECURSIVE ShapeAlts(_, _, _, _)
ShapeAlts(alts, shape, i, st) ==
    IF i > Len(alts) THEN Fail(st)
    ELSE LET r == ShapeMatches(alts[i], shape, st)
         IN  IF r.ok THEN r ELSE ShapeAlts(alts, shape, i + 1, st)

RECURSIVE MatchElems(_, _, _, _, _)
MatchElems(items, et, val, i, st) ==
    IF ~st.ok \/ i > Len(items) THEN st
    ELSE LET it == items[i]
             s1 == CASE it.t = "sym" -> BindSym(st, it.s, ElemV(et, val[i]))
                     [] it.t = "lit" -> IF val[i] = it.v THEN st ELSE Fail(st)
                     [] OTHER -> st
         IN  MatchElems(items, et, val, i + 1, s1)

\* const_idx_predicate: the i32 constant 0,0,1,1,2,2,...  The loop reads
\* vec[i] and vec[i + 1] for i = 0, 2, 4, ... below vec.size(); a read at
\* index vec.size() is outside the vector, so any value may come back.
const_idx_predicate(gn, oob) ==
    IF gn.op = "Constant"
    THEN LET vec == gn.val
             at(j) == IF j + 1 <= Len(vec) THEN vec[j + 1] ELSE oob
         IN  \A i \in {j \in 0..(Len(vec) - 1) : j % 2 = 0} :
                 at(i) = i \div 2 /\ at(i + 1) = i \div 2
    ELSE FALSE

AttrsOk(want, have) == \A a \in DOMAIN want : a \in DOMAIN have /\ have[a] = want[a]

\* the predicate of a pattern node: rank_equals, type_matches, shape_matches
ApplyPred(pred, g, gv, st, orc) ==
    LET gn == g[gv[1]]
        shape == ShapeOf(g, gv)
    IN  IF pred.rank # -1 /\ Len(shape) # pred.rank THEN Fail(st)
        ELSE IF pred.et # "" /\ gn.et # pred.et THEN Fail(st)
        ELSE IF pred.fn = "const_idx" /\ ~const_idx_predicate(gn, orc.oob) THEN Fail(st)
        ELSE IF pred.shp = <<>> THEN st
        ELSE ShapeAlts(pred.shp, shape, 1, st)

\* The matcher runs as a machine: st is the match state, todo the pattern
\* values still to be aligned with graph values, cps the open choice points
\* (alternatives of an Or, the typed and the skipped form of an optional, the
\* two input orders of a commutative node), innermost first.
Task(t, pv, gv) == [t |-> t, pv |-> pv, gv |-> gv]

Commit == Task("commit", <<"", 0>>, <<0, 0>>)

NoMatch == [ok |-> TRUE, pm |-> EmptyFn, sym |-> EmptyFn]

\* a failure: back to the innermost choice point that has an alternative
\* left, with the state it was opened in; no choice point left, no match
RECURSIVE Backtrack(_)
Backtrack(M) ==
    IF M.cps = <<>> THEN [st |-> Fail(NoMatch), todo |-> <<>>, cps |-> <<>>]
    ELSE LET cp == Head(M.cps) IN
         IF cp.alts = <<>> THEN Backtrack([M EXCEPT !.cps = Tail(@)])
         ELSE [st |-> cp.st,
               todo |-> Head(cp.alts) \o <<Commit>> \o cp.todo,
               cps |-> <<[cp EXCEPT !.alts = Tail(@)]>> \o Tail(M.cps)]

\* the alternatives are tried in order; the first that matches is kept
Choice(M, st, alts, rest) ==
    Backtrack([M EXCEPT !.cps = <<[alts |-> alts, st |-> st, todo |-> rest]>> \o @])

ArgTasks(pins, gins) == [i \in DOMAIN pins |-> Task("match", pins[i], gins[i])]

\* a typed pattern node: type, output port, attributes, predicate, then the
\* inputs one by one
StepTyped(g, P, M, task, rest, orc) ==
    LET name == task.pv[1]
        pn == P[name]
        gv == task.gv
        gn == g[gv[1]]
        s1 == ApplyPred(pn.pred, g, gv, M.st, orc)
        s2 == Bind(s1, name, gv)
    IN  IF ~(gn.op \in pn.ops /\ task.pv[2] = gv[2] /\ AttrsOk(pn.attr, gn.attr)) THEN Backtrack(M)
        ELSE IF ~s1.ok THEN Backtrack(M)
        ELSE IF pn.ins = <<>> THEN [M EXCEPT !.st = s2, !.todo = rest]
        ELSE IF Len(pn.ins) # Len(gn.ins) THEN Backtrack(M)
        ELSE IF IsCommutative(gn.op) /\ Len(pn.ins) = 2
             THEN Choice(M, s2, <<ArgTasks(pn.ins, gn.ins),
                                  ArgTasks(<<pn.ins[2], pn.ins[1]>>, gn.ins)>>, rest)
        ELSE [M EXCEPT !.st = s2, !.todo = ArgTasks(pn.ins, gn.ins) \o rest]

StepConst(g, P, M, task, rest) ==
    LET name == task.pv[1]
        pn == P[name]
        gn == g[task.gv[1]]
        r == IF pn.k = "const" THEN MatchElems(pn.items, gn.et, gn.val, 1, M.st)
             ELSE IF \A i \in DOMAIN pn.items : pn.items[i].t = "lit" => gn.val[i] = pn.items[i].v
                  THEN M.st ELSE Fail(M.st)
    IN  IF gn.op # "Constant" \/ Len(gn.val) # Len(pn.items) THEN Backtrack(M)
        ELSE IF pn.pred.et # "" /\ gn.et # pn.pred.et THEN Backtrack(M)
        ELSE IF r.ok THEN [M EXCEPT !.st = Bind(r, name, task.gv), !.todo = rest]
        ELSE Backtrack(M)

StepAny(g, P, M, task, rest, orc) ==
    LET name == task.pv[1]
        s1 == ApplyPred(P[name].pred, g, task.gv, M.st, orc)
    IN  IF ~s1.ok THEN Backtrack(M)
        ELSE IF name \in DOMAIN M.st.pm
             THEN (IF M.st.pm[name] = task.gv THEN [M EXCEPT !.st = s1, !.todo = rest]
                   ELSE Backtrack(M))
        ELSE [M EXCEPT !.st = Bind(s1, name, task.gv), !.todo = rest]

Step(g, P, M, orc) ==
    LET task == Head(M.todo)
        rest == Tail(M.todo)
        pn == P[task.pv[1]]
    IN  CASE task.t = "commit" -> [M EXCEPT !.todo = rest, !.cps = Tail(@)]
          [] task.t = "bind" -> [M EXCEPT !.todo = rest, !.st = Bind(@, task.pv[1], task.gv)]
          [] task.t = "typed" -> StepTyped(g, P, M, task, rest, orc)
          [] pn.k = "any" -> StepAny(g, P, M, task, rest, orc)
          [] pn.k = "wrap" -> StepTyped(g, P, M, task, rest, orc)
          [] pn.k = "opt" ->
                Choice(M, M.st, << <<Task("typed", task.pv, task.gv)>>,
                                   <<Task("match", pn.ins[1], task.gv)>> >>, rest)
          [] pn.k = "or" ->
                Choice(M, M.st, [i \in DOMAIN pn.ins |->
                                    <<Task("match", pn.ins[i], task.gv),
                                      Task("bind", task.pv, task.gv)>>], rest)
          [] OTHER -> StepConst(g, P, M, task, rest)

Done(M) == M.todo = <<>>

\* up to n steps of the machine
RECURSIVE Steps(_, _, _, _, _)
Steps(g, P, M, n, orc) ==
    IF Done(M) THEN M
    ELSE IF n = 1 THEN Step(g, P, M, orc)
    ELSE Steps(g, P, Steps(g, P, M, n \div 2, orc), n - (n \div 2), orc)

RECURSIVE Run(_, _, _, _, _)
Run(g, P, M, n, orc) ==
    LET R == Steps(g, P, M, n, orc) IN IF Done(R) THEN R ELSE Run(g, P, R, 2 * n, orc)

\* Matcher::match(root output 0) against the template's root
Match(g, rule, root, orc) ==
    Run(g, rule.pat, [st |-> NoMatch, todo |-> <<Task("match", <<rule.root, 0>>, <<root, 0>>)>>,
                      cps |-> <<>>], 2, orc).st

----------------------------------------------------------------------------
(* RoPEFusionFlux                                                           *)

FluxPattern ==
    Literals @@
    [x |-> PAny([Rank(4) EXCEPT !.shp = <<<<Grp("PRESERVED_DIMS"), Sym("head_size")>>>>]),
     t_cos |-> PAny(Rank(4)),
     t_sin |-> PAny(Rank(4)),
     x1 |-> PWrap("Reshape", <<O("x"), O("any1")>>, NoAttr,
                  Shape(<<Grp("PRESERVED_DIMS"), Wild, Lit(2)>>)),
     split |-> PWrap("Split", <<O("x1"), O("k_m1")>>, [num_splits |-> 2], NoPred),
     opt_squeeze |-> POpt("Squeeze", <<<<"split", 1>>, O("k_m1")>>),
     x1_1_neg |-> PWrap("Multiply", <<O("opt_squeeze"), O("k_m1")>>,
                        [auto_broadcast |-> "numpy"], NoPred),
     opt_squeeze_1 |-> POpt("Squeeze", <<O("x1_1_neg"), O("k_m1")>>),
     opt_unsqueeze |-> POpt("Unsqueeze", <<O("opt_squeeze_1"), O("k_m1")>>),
     x2 |-> PWrap("Concat", <<O("opt_unsqueeze"), <<"split", 0>>>>, [axis |-> -1], NoPred),
     x3 |-> PWrap("Reshape", <<O("x2"), O("any2")>>, NoAttr,
                  Shape(<<Grp("PRESERVED_DIMS"), Sym("head_size")>>)),
     y1 |-> PWrap("Multiply", <<O("x"), O("t_cos")>>, [auto_broadcast |-> "numpy"], NoPred),
     y2 |-> PWrap("Multiply", <<O("x3"), O("t_sin")>>, [auto_broadcast |-> "numpy"], NoPred),
     result |-> PWrap("Add", <<O("y1"), O("y2")>>, [auto_broadcast |-> "numpy"], NoPred)]

\* what a callback hands back: its return value, the graph, the nodes it
\* registered with register_new_node
ShareState ==
    [inv_freq |-> m_inv_freq, inputs |-> m_shared_inputs, cos0 |-> m_shared_cos0,
     sin0 |-> m_shared_sin0]

Returned(r, g, reg) == [ret |-> r, nodes |-> g, reg |-> reg, share |-> ShareState]

NodesOf(pm, names) == {pm[n][1] : n \in names}

\* a check that looks at the head size only
FluxHeadSizeStatic(num_heads, head_size) == head_size.k # "dyn"

FluxDimsStatic(num_heads, head_size) == num_heads.k # "dyn" /\ head_size.k # "dyn"

\* a configuration that takes half the head size for the rotary dimensions
FluxConfigHalfRotary(num_heads, head_size) ==
    [Config EXCEPT !.head_cnt = num_heads.v, !.head_size = head_size.v,
                   !.rotary_ndims = head_size.v \div 2, !.is_interleaved = TRUE,
                   !.output_trans0213 = FALSE]

FluxConfig(num_heads, head_size) ==
    [Config EXCEPT !.head_cnt = num_heads.v, !.head_size = head_size.v,
                   !.rotary_ndims = head_size.v, !.is_interleaved = TRUE,
                   !.output_trans0213 = FALSE]

FluxCallback(g, m) ==
    LET pm == m.pm
        root == m.root
        num_heads == DimV(m.sym["PRESERVED_DIMS"].g[2])
        head_size == m.sym["head_size"]
    IN  IF ~FluxDimsStatic(num_heads, head_size) THEN Returned("false", g, <<>>)
        ELSE LET new_args == <<pm["x"], pm["t_cos"], pm["t_sin"]>>
                 new_node == Len(g) + 1
                 made == [RoPE(new_args, FluxConfig(num_heads, head_size), ShapeOf(g, O(root)))
                             EXCEPT !.rt = NodesOf(pm, {"x1", "split", "x2", "x3", "y1", "y2", "result"}),
                                    !.mdl = g[root].mdl]
             IN  Returned("true", ReplaceNode(Append(g, made), root, new_node), <<new_node>>)

----------------------------------------------------------------------------
(* NewGenSlice / NewGenStridedSlice / GenSlice / GenStridedSlice            *)

Vec(axis, fill, at) == [i \in 1..(axis + 1) |-> IF i = axis + 1 THEN at ELSE fill]

SliceMasks(axis) ==
    [begin_mask |-> Vec(axis, 1, 0), end_mask |-> Vec(axis, 1, 0), new_axis_mask |-> <<>>,
     shrink_axis_mask |-> <<>>, ellipsis_mask |-> <<>>]

\* Slice(data, start, stop, step, axis) | StridedSlice(data, begin, end, stride)
SlicePattern(n, data, start, stop, step, axis, k) ==
    (n :> POr(<<O(n \o "_opt1"), O(n \o "_opt2")>>)) @@
    (n \o "_opt1" :> PWrap("Slice", <<data, O(n \o "_start"), O(n \o "_stop"), O(n \o "_step"),
                                      O(n \o "_axis")>>, NoAttr, NoPred)) @@
    (n \o "_start" :> PKonst(k, <<start>>)) @@ (n \o "_stop" :> PKonst(k, <<stop>>)) @@
    (n \o "_step" :> PKonst(k, <<step>>)) @@ (n \o "_axis" :> PKonst(k, <<Lit(axis)>>)) @@
    (n \o "_opt2" :> PWrap("StridedSlice", <<data, O(n \o "_begin"), O(n \o "_end"),
                                             O(n \o "_stride")>>, SliceMasks(axis), NoPred)) @@
    (n \o "_begin" :> PKonst(k, Vec(axis, Lit(0), start))) @@
    (n \o "_end" :> PKonst(k, Vec(axis, Lit(0), stop))) @@
    (n \o "_stride" :> PKonst(k, Vec(axis, Lit(1), step)))

NewGenSlice(n, data, start, stop, step, axis) ==
    SlicePattern(n, data, start, stop, step, axis, "const")

\* StridedSlice(data, start, stop, step) with the masks of the axis
NewGenStridedSlice(n, data, start, stop, step, axis) ==
    (n :> PWrap("StridedSlice", <<data, start, stop, step>>, SliceMasks(axis), NoPred))

\* gen_pattern's GenSlice: the same two alternatives, its symbols observed
\* by the PatternValidator instead of by the matcher
GenSlice(n, data, start, stop, step, axis) ==
    SlicePattern(n, data, start, stop, step, axis, "gconst")

GenStridedSlice(n, data, start, stop, step, axis) ==
    NewGenStridedSlice(n, data, start, stop, step, axis)

----------------------------------------------------------------------------
(* RoPEFusionGPTNEOX                                                        *)

NeoxPattern ==
    Literals @@
    [x |-> PAny(Rank(4)),
     x_or_cos1 |-> PAny(Rank(4)),
     x_or_cos2 |-> PAny(Rank(4)),
     t_sin |-> PAny(Rank(4)),
     varsplit_len |-> PConst(<<Sym("half_ndims"), Wild>>),
     varsplit |-> PWrap("VariadicSplit", <<O("x"), O("k_3"), O("varsplit_len")>>, NoAttr, NoPred),
     x2_or |-> POr(<<O("x2"), <<"varsplit", 1>>>>),
     x2neg |-> PWrap("Multiply", <<O("x2_or"), O("k_m1")>>, [auto_broadcast |-> "numpy"], NoPred),
     x1_or |-> POr(<<O("x1"), <<"varsplit", 0>>>>),
     x_rotate_half |-> PWrap("Concat", <<O("x2neg"), O("x1_or")>>, [axis |-> -1], NoPred),
     mul_cos |-> PWrap("Multiply", <<O("x_or_cos1"), O("x_or_cos2")>>,
                       [auto_broadcast |-> "numpy"], NoPred),
     mul_sin |-> PWrap("Multiply", <<O("x_rotate_half"), O("t_sin")>>,
                       [auto_broadcast |-> "numpy"], NoPred),
     result |-> PWrap("Add", <<O("mul_cos"), O("mul_sin")>>, [auto_broadcast |-> "numpy"], NoPred)]
    @@ NewGenSlice("x2", O("x"), Sym("half_ndims"), Lit(IntMax), Lit(1), 3)
    @@ NewGenSlice("x1", O("x"), Lit(0), Sym("half_ndims"), Lit(1), 3)

Null == <<0, 0>>

\* a check that expects x as the first operand of the multiply
NeoxCosFirstOperand(pm) == IF pm["x_or_cos1"] = pm["x"] THEN pm["x_or_cos2"] ELSE Null

\* a check that takes the other operand for cos without looking for x
NeoxCosUnchecked(pm) ==
    IF pm["x_or_cos1"] = pm["x"] THEN pm["x_or_cos2"] ELSE pm["x_or_cos1"]

\* check mul(x, cos) exists: the operand of the first multiply that is not x
NeoxCos(pm) ==
    IF pm["x_or_cos1"] = pm["x"] THEN pm["x_or_cos2"]
    ELSE IF pm["x_or_cos2"] = pm["x"] THEN pm["x_or_cos1"]
    ELSE Null

NeoxConfig(half_ndims) == [Config EXCEPT !.rotary_ndims = 2 * half_ndims.v]

\* a callback that does not register the node it made
NeoxCallbackNotRegistering(g, m) ==
    LET pm == m.pm
        root == m.root
        v_cos == NeoxCos(pm)
    IN  IF v_cos = Null THEN Returned("false", g, <<>>)
        ELSE IF ~is_integer(m.sym["half_ndims"]) THEN Returned("false", g, <<>>)
        ELSE LET new_args == <<pm["x"], v_cos, pm["t_sin"]>>
                 new_node == Len(g) + 1
                 made == [RoPE(new_args, NeoxConfig(m.sym["half_ndims"]), ShapeOf(g, O(root)))
                             EXCEPT !.rt = NodesOf(pm, {"x2neg", "x_rotate_half", "mul_cos",
                                                        "mul_sin", "result"}),
                                    !.mdl = g[root].mdl]
             IN  Returned("true", ReplaceNode(Append(g, made), root, new_node), <<>>)

NeoxCallback(g, m) ==
    LET pm == m.pm
        root == m.root
        v_cos == NeoxCos(pm)
    IN  IF v_cos = Null THEN Returned("false", g, <<>>)
        ELSE IF ~is_integer(m.sym["half_ndims"]) THEN Returned("false", g, <<>>)
        ELSE LET new_args == <<pm["x"], v_cos, pm["t_sin"]>>
                 new_node == Len(g) + 1
                 made == [RoPE(new_args, NeoxConfig(m.sym["half_ndims"]), ShapeOf(g, O(root)))
                             EXCEPT !.rt = NodesOf(pm, {"x2neg", "x_rotate_half", "mul_cos",
                                                        "mul_sin", "result"}),
                                    !.mdl = g[root].mdl]
             IN  Returned("true", ReplaceNode(Append(g, made), root, new_node), <<new_node>>)

----------------------------------------------------------------------------
(* PatternValidator (gen_pattern): the symbols of the matched symbolic      *)
(* constants, observed after the structural match.                          *)

\* <<symbol, divisor, observed value>> for every symbol item of a bound constant
Observations(g, P, pm) ==
    {<<P[n].items[i].s, P[n].items[i].d, g[pm[n][1]].val[i]>> :
        <<n, i>> \in {q \in {c \in DOMAIN pm : P[c].k = "gconst"} \X (1..8) :
                        q[2] \in DOMAIN P[q[1]].items /\ P[q[1]].items[q[2]].t = "gsym"}}

\* validator["name"]: the value observed for the symbol; 0 if it was never
\* observed
SymbolValue(obs, name) ==
    IF \E o \in obs : o[1] = name /\ o[2] = 1
    THEN (CHOOSE o \in obs : o[1] = name /\ o[2] = 1)[3]
    ELSE 0

\* if (!validator): every symbol with validation enabled has the same value at
\* all its occurrences, and a derived symbol (ndims / 2) times its divisor is
\* the symbol's value
ValidatorOk(obs, noval) ==
    /\ \A a, b \in obs : (a[1] = b[1] /\ a[2] = b[2] /\ a[1] \notin noval) => a[3] = b[3]
    /\ \A a, b \in obs : (a[1] = b[1] /\ a[2] = 1 /\ b[2] # 1) => b[3] * b[2] = a[3]

----------------------------------------------------------------------------
(* RoPEFusionGPTJ                                                           *)

\* repeat_interleave_pattern(var_split_output), pattern nodes prefixed by n
repeat_interleave_pattern(n, var_split_output) ==
    (n \o "_shape" :> PConst(<<Sym("dim0"), Sym("dim1"), Lit(1), Lit(32)>>)) @@
    (n \o "_reshape" :> PWrap("Reshape", <<var_split_output, O(n \o "_shape")>>, NoAttr, NoPred)) @@
    (n \o "_unsqueeze2" :> PWrap("Unsqueeze", <<var_split_output, O("k_2")>>, NoAttr, NoPred)) @@
    (n \o "_unsqueeze" :> POr(<<O(n \o "_reshape"), O(n \o "_unsqueeze2")>>)) @@
    \* repeate cos/sin table
    (n \o "_const_idx" :> PWrap("Constant", <<>>, NoAttr, [Type("i32") EXCEPT !.fn = "const_idx"])) @@
    (n :> PWrap("Gather", <<O(n \o "_unsqueeze"), O(n \o "_const_idx"), O("k_3")>>,
                [batch_dims |-> 0], NoPred))

GPTJPattern ==
    Literals @@
    [gather_sin_cos |-> PAny(Type("f32")),
     varsplit_len |-> PConst(<<Sym("ndims/2"), Lit(-1)>>),
     varsplit |-> PWrap("VariadicSplit", <<O("gather_sin_cos"), O("k_m1"), O("varsplit_len")>>,
                        NoAttr, NoPred),
     view_Reshape |-> PAny(Rank(4)),
     \* view_Reshape : B,L,H,S
     varsplit_view_Reshape_len |-> PConst(<<Sym("ndims"), Sym("end")>>),
     varsplit_view_Reshape |-> PWrap("VariadicSplit", <<O("view_Reshape"), O("k_3"),
                                                        O("varsplit_view_Reshape_len")>>, NoAttr, NoPred),
     x_1174 |-> POr(<<O("slice_Slice_965"), <<"varsplit_view_Reshape", 0>>>>),
     neg_Multiply_1177 |-> PWrap("Multiply", <<O("slice_Slice_1174"), O("k_m1")>>,
                                 [auto_broadcast |-> "numpy"], NoPred),
     Unsqueeze_65524 |-> PWrap("Unsqueeze", <<O("neg_Multiply_1177"), O("k_m1")>>, NoAttr, NoPred),
     k_stack |-> PConst(<<Lit(-1), Lit(1), Sym("head_num"), Lit(32), Lit(1)>>),
     Unsqueeze_28998 |-> PWrap("Reshape", <<O("neg_Multiply_1177"), O("k_stack")>>,
                               [special_zero |-> FALSE], NoPred),
     x_1168 |-> POr(<<O("slice_Slice_965"), <<"varsplit_view_Reshape", 0>>>>),
     Unsqueeze_65525 |-> PWrap("Unsqueeze", <<O("slice_Slice_1168"), O("k_m1")>>, NoAttr, NoPred),
     Unsqueeze_28999 |-> PWrap("Reshape", <<O("slice_Slice_1168"), O("k_stack")>>,
                               [special_zero |-> FALSE], NoPred),
     stack_neg |-> POr(<<O("Unsqueeze_65524"), O("Unsqueeze_28998")>>),
     stack_pos |-> POr(<<O("Unsqueeze_65525"), O("Unsqueeze_28999")>>),
     stack_1182 |-> PWrap("Concat", <<O("stack_neg"), O("stack_pos")>>, [axis |-> -1], NoPred),
     ShapeOf_169068 |-> PWrap("ShapeOf", <<O("stack_1182")>>, NoAttr, NoPred),
     flatten_Concat_1197 |-> PWrap("Concat", <<O("flatten_Slice_1194"), O("k_m1")>>,
                                   [axis |-> 0], NoPred),
     \* If with special zero, no need to use shapeof to get full shape
     flatten_Reshape_1198 |-> PWrap("Reshape", <<O("stack_1182"), O("flatten_Concat_1197")>>,
                                    NoAttr, NoPred),
     flatten_Reshape_Zero |-> PWrap("Reshape", <<O("stack_1182"), O("any1")>>,
                                    [special_zero |-> TRUE], NoPred),
     \* x*cos [B,L,H,ndims]
     x_cos |-> POr(<<O("slice_Slice_965"), <<"varsplit_view_Reshape", 0>>>>),
     mul_cos |-> PWrap("Multiply", <<O("x_cos"), O("repeat_interleave_cos")>>,
                       [auto_broadcast |-> "numpy"], NoPred),
     flatten |-> POr(<<O("flatten_Reshape_1198"), O("flatten_Reshape_Zero")>>),
     mul_sin |-> PWrap("Multiply", <<O("flatten"), O("repeat_interleave_sin")>>,
                       [auto_broadcast |-> "numpy"], NoPred),
     \* *cos + *sin
     rotary_emb |-> PWrap("Add", <<O("mul_cos"), O("mul_sin")>>, [auto_broadcast |-> "numpy"], NoPred),
     pass_through |-> POr(<<O("slice_Slice_971"), <<"varsplit_view_Reshape", 1>>>>),
     result |-> PWrap("Concat", <<O("rotary_emb"), O("pass_through")>>, [axis |-> -1], NoPred)]
    @@ repeat_interleave_pattern("repeat_interleave_sin", <<"varsplit", 0>>)
    @@ repeat_interleave_pattern("repeat_interleave_cos", <<"varsplit", 1>>)
    @@ NewGenSlice("slice_Slice_965", O("view_Reshape"), Lit(0), Sym("ndims"), Lit(1), 3)
    \* x interleave (-x[:,:,:, 1::2], x[:,:,:, 0::2])
    @@ NewGenSlice("slice_Slice_1174", O("x_1174"), Lit(1), Lit(IntMax), Lit(2), 3)
    @@ NewGenSlice("slice_Slice_1168", O("x_1168"), Lit(0), Lit(IntMax), Lit(2), 3)
    @@ NewGenSlice("flatten_Slice_1194", O("ShapeOf_169068"), Lit(0), Lit(3), Lit(1), 0)
    @@ NewGenSlice("slice_Slice_971", O("view_Reshape"), Sym("ndims"), Lit(IntMax), Lit(1), 3)

\* symbols["name"]: a symbol the match did not bind is neither integer nor double
Symbols(m, name) == IF name \in DOMAIN m.sym THEN m.sym[name] ELSE [k |-> "none", v |-> 0, g |-> <<>>]

\* the only consumer of the root, if it is a Transpose by the constant {0, 2, 1, 3}
\* a callback that does not count the consumers of the root
GPTJOutputTransposeAmongConsumers(g, root) ==
    LET T == {c \in Consumers(g, root) :
                 /\ g[c].op = "Transpose" /\ g[g[c].ins[2][1]].op = "Constant"
                 /\ g[g[c].ins[2][1]].val = <<0, 2, 1, 3>>}
    IN  IF T # {} THEN CHOOSE c \in T : TRUE ELSE 0

GPTJOutputTranspose(g, root) ==
    LET ti == TargetInputs(g, root) IN
    IF Cardinality(ti) = 1
    THEN LET target_node == (CHOOSE t \in ti : TRUE)[1]
             axes == g[target_node].ins[2][1]
         IN  IF g[target_node].op = "Transpose" /\ g[axes].op = "Constant"
                /\ g[axes].val = <<0, 2, 1, 3>>
             THEN target_node ELSE 0
    ELSE 0

GPTJConfig(ndims, output_trans0213) ==
    [Config EXCEPT !.rotary_ndims = ndims.v, !.output_trans0213 = output_trans0213,
                   !.is_interleaved = TRUE]

\* shapeof may be moved up from transpose to add: a ShapeOf reading rotary_emb
\* reads the data input of RoPE instead
GPTJMoveShapeOf(g, rotary_emb_node, view_Reshape) ==
    LET ti == TargetInputs(g, rotary_emb_node) IN
    IF Cardinality(ti) = 2
    THEN [n \in DOMAIN g |->
            IF g[n].op = "ShapeOf"
            THEN [g[n] EXCEPT !.ins = [i \in DOMAIN @ |->
                      IF <<n, i>> \in ti THEN view_Reshape ELSE @[i]]]
            ELSE g[n]]
    ELSE g

\* a callback that takes ndims/2 for half of ndims without comparing them
GPTJCallbackUnchecked(g, m) ==
    LET pm == m.pm
        ndims == Symbols(m, "ndims")
        ndims_over_2 == Symbols(m, "ndims/2")
    IN  IF ~is_integer(ndims) \/ ~is_integer(ndims_over_2)
        THEN Returned("false", g, <<>>)
        ELSE \* Fuse output transpose to Rope.
        LET transpose == GPTJOutputTranspose(g, m.root)
            root == IF transpose # 0 THEN transpose ELSE m.root
            rt_from == NodesOf(pm, {"varsplit", "repeat_interleave_sin", "repeat_interleave_cos",
                                    "neg_Multiply_1177", "stack_1182", "mul_cos", "mul_sin",
                                    "rotary_emb", "result"})
                       \cup (IF transpose # 0 THEN {transpose} ELSE {})
            \* input is [B,L,H,S]; sin_cos table (gathered with positions) [1, L, 64]
            new_args == <<pm["view_Reshape"], pm["gather_sin_cos"], pm["gather_sin_cos"]>>
            new_node == Len(g) + 1
            made == [RoPE(new_args, GPTJConfig(ndims, transpose # 0), ShapeOf(g, O(root)))
                        EXCEPT !.rt = rt_from, !.mdl = g[root].mdl]
            g1 == ReplaceNode(Append(g, made), root, new_node)
        IN  Returned("true", GPTJMoveShapeOf(g1, pm["rotary_emb"][1], pm["view_Reshape"]), <<>>)

GPTJCallback(g, m) ==
    LET pm == m.pm
        ndims == Symbols(m, "ndims")
        ndims_over_2 == Symbols(m, "ndims/2")
    IN  IF ~is_integer(ndims) \/ ~is_integer(ndims_over_2) \/ ndims_over_2.v * 2 # ndims.v
        THEN Returned("false", g, <<>>)
        ELSE \* Fuse output transpose to Rope.
        LET transpose == GPTJOutputTranspose(g, m.root)
            root == IF transpose # 0 THEN transpose ELSE m.root
            rt_from == NodesOf(pm, {"varsplit", "repeat_interleave_sin", "repeat_interleave_cos",
                                    "neg_Multiply_1177", "stack_1182", "mul_cos", "mul_sin",
                                    "rotary_emb", "result"})
                       \cup (IF transpose # 0 THEN {transpose} ELSE {})
            \* input is [B,L,H,S]; sin_cos table (gathered with positions) [1, L, 64]
            new_args == <<pm["view_Reshape"], pm["gather_sin_cos"], pm["gather_sin_cos"]>>
            new_node == Len(g) + 1
            made == [RoPE(new_args, GPTJConfig(ndims, transpose # 0), ShapeOf(g, O(root)))
                        EXCEPT !.rt = rt_from, !.mdl = g[root].mdl]
            g1 == ReplaceNode(Append(g, made), root, new_node)
        IN  Returned("true", GPTJMoveShapeOf(g1, pm["rotary_emb"][1], pm["view_Reshape"]), <<>>)

----------------------------------------------------------------------------
(* RoPEFusionCosSinPreprocess: the gather of the cos/sin tables             *)

I32x1 == [Type("i32") EXCEPT !.shp = <<<<Lit(1)>>>>]

\* prepare_cos_sin_gptneox(const_tab), pattern nodes prefixed by n
prepare_cos_sin_gptneox(n, const_tab) ==
    (n \o "slice" :> PWrap("Slice", <<const_tab, O("k_0"), O("node_batch_size"), O("k_1"), O("k_0")>>,
                           NoAttr, NoPred)) @@
    NewGenStridedSlice(n \o "strided_slice", const_tab, O("k_0"), O("node_batch_size"), O("k_1"), 0) @@
    (n \o "gptneox_in" :> POr(<<O(n \o "strided_slice"), O(n \o "slice")>>)) @@
    (n \o "gptneox" :> PWrap("GatherElements", <<O(n \o "gptneox_in"), O("gather_positions")>>,
                             [axis |-> 2], NoPred))

\* prepare_cos_sin_llama(const_tab), pattern nodes prefixed by n
prepare_cos_sin_llama(n, const_tab) ==
    (n \o "ScatterUpdate" :> PWrap("ScatterUpdate", <<O("k_000"), O("k_2"), O("seq_len"), O("k_0")>>,
                                   NoAttr, NoPred)) @@
    (n \o "slice_Slice" :> PWrap("Slice", <<const_tab, O("k_0"), O("seq_len"), O("k_1"), O("k_2")>>,
                                 NoAttr, NoPred)) @@
    NewGenStridedSlice(n \o "slice_StridedSlice", const_tab, O("k_000"), O(n \o "ScatterUpdate"),
                       O("k_111"), 2) @@
    (n \o "squeeze_in" :> POr(<<O(n \o "slice_StridedSlice"), O(n \o "slice_Slice")>>)) @@
    (n \o "squeeze" :> PWrap("Reshape", <<O(n \o "squeeze_in"), O(n \o "any_a")>>, NoAttr,
                             Shape(<<Wild, Sym("head_dims")>>))) @@
    (n \o "any_a" :> PAny(NoPred)) @@
    (n \o "index_Gather" :> PWrap("Gather", <<O(n \o "squeeze"), O("gather_positions_2d"), O("k_0")>>,
                                  [batch_dims |-> 0], NoPred)) @@
    \* another simplified pattern for gathering at position_ids
    (n \o "slice_Slice2" :> PWrap("Slice", <<const_tab, O("k_0"), O("seq_len"), O("k_1"), O("k_0")>>,
                                  NoAttr, NoPred)) @@
    NewGenStridedSlice(n \o "slice_StridedSlice2", const_tab, O("k_0"), O("seq_len"), O("k_1"), 0) @@
    (n \o "index_Gather2_in" :> POr(<<O(n \o "slice_Slice2"), O(n \o "slice_StridedSlice2")>>)) @@
    (n \o "index_Gather2" :> PWrap("Gather", <<O(n \o "index_Gather2_in"), O("gather_positions_2d"),
                                               O("k_0")>>, [batch_dims |-> 0], NoPred)) @@
    (n \o "unsqueeze_in" :> POr(<<O(n \o "index_Gather"), O(n \o "index_Gather2")>>)) @@
    (n \o "any_b" :> PAny(NoPred)) @@
    (n \o "unsqueeze" :> PWrap("Reshape", <<O(n \o "unsqueeze_in"), O(n \o "any_b")>>, NoAttr,
                               Shape(<<Lit(1), Lit(1), Wild, Sym("head_dims")>>))) @@
    (n \o "unsqueeze2" :> PWrap("Unsqueeze", <<O(n \o "index_Gather2"), O("k_1")>>, NoAttr, NoPred)) @@
    (n \o "llama" :> POr(<<O(n \o "unsqueeze2"), O(n \o "unsqueeze")>>))

CosSinPreprocessPattern ==
    Literals @@
    [k_000 |-> PConst(<<Lit(0), Lit(0), Lit(0)>>),
     k_111 |-> PConst(<<Lit(1), Lit(1), Lit(1)>>),
     cos_const |-> PWrap("Constant", <<>>, NoAttr, Type("f32")),
     sin_const |-> PWrap("Constant", <<>>, NoAttr, Type("f32")),
     node_batch_size |-> PAny(I32x1),
     tile_batch |-> PAny(I32x1),
     gather_positions |-> PAny([Rank(4) EXCEPT !.et = "i32"]),
     seq_len |-> PAny(I32x1),
     gather_positions_2d |-> PAny([Rank(2) EXCEPT !.et = "i32"]),
     cos_tab |-> POr(<<O("cos_gptneox"), O("cos_llama")>>),
     sin_tab |-> POr(<<O("sin_gptneox"), O("sin_llama")>>),
     x |-> PAny(Rank(4)),
     rope |-> PWrap("RoPE", <<O("x"), O("cos_tab"), O("sin_tab")>>, NoAttr, NoPred)]
    @@ prepare_cos_sin_gptneox("cos_", O("cos_const"))
    @@ prepare_cos_sin_llama("cos_", O("cos_const"))
    @@ prepare_cos_sin_gptneox("sin_", O("sin_const"))
    @@ prepare_cos_sin_llama("sin_", O("sin_const"))

\* a callback that builds a second fused node with the tables as inputs and
\* puts it in the place of the one it matched
CosSinPreprocessCallbackRebuilding(g, m) ==
    LET pm == m.pm
        rope_node == pm["rope"][1]
    IN  IF g[rope_node].op # "RoPE" THEN Returned("false", g, <<>>)
        ELSE
        LET cos == IF "cos_const" \in DOMAIN pm THEN pm["cos_const"] ELSE g[rope_node].ins[2]
            sin == IF "sin_const" \in DOMAIN pm THEN pm["sin_const"] ELSE g[rope_node].ins[3]
            new_node == Len(g) + 1
            made == [g[rope_node] EXCEPT !.ins = <<g[rope_node].ins[1], cos, sin>>]
        IN  Returned("true", ReplaceNode(Append(g, made), rope_node, new_node), <<new_node>>)

\* a callback that reads the input count after it has appended the positions
CosSinPreprocessCallbackCountingAfter(g, m) ==
    LET pm == m.pm
        rope_node == pm["rope"][1]
    IN  IF g[rope_node].op # "RoPE" THEN Returned("false", g, <<>>)
        ELSE
        LET g1 == IF "cos_const" \in DOMAIN pm
                  THEN SetArgument(g, rope_node, 1, pm["cos_const"]) ELSE g
            g2 == IF "sin_const" \in DOMAIN pm
                  THEN SetArgument(g1, rope_node, 2, pm["sin_const"]) ELSE g1
            positions == IF "gather_positions" \in DOMAIN pm THEN pm["gather_positions"]
                         ELSE IF "gather_positions_2d" \in DOMAIN pm THEN pm["gather_positions_2d"]
                         ELSE Null
            g3 == IF positions = Null THEN g2
                  ELSE [SetArgument(g2, rope_node, Len(g2[rope_node].ins), positions)
                           EXCEPT ![rope_node].cfg.gather_position_arg_id =
                                      Len(g2[rope_node].ins) + 1]
        IN  Returned("true", g3, <<rope_node>>)

CosSinPreprocessCallback(g, m) ==
    LET pm == m.pm
        rope_node == pm["rope"][1]
    IN  IF g[rope_node].op # "RoPE" THEN Returned("false", g, <<>>)
        ELSE
        LET g1 == IF "cos_const" \in DOMAIN pm
                  THEN SetArgument(g, rope_node, 1, pm["cos_const"]) ELSE g
            g2 == IF "sin_const" \in DOMAIN pm
                  THEN SetArgument(g1, rope_node, 2, pm["sin_const"]) ELSE g1
            arg_id == Len(g2[rope_node].ins)
            positions == IF "gather_positions" \in DOMAIN pm THEN pm["gather_positions"]
                         ELSE IF "gather_positions_2d" \in DOMAIN pm THEN pm["gather_positions_2d"]
                         ELSE Null
            g3 == IF positions = Null THEN g2
                  ELSE [SetArgument(g2, rope_node, arg_id, positions)
                           EXCEPT ![rope_node].cfg.gather_position_arg_id = arg_id]
        IN  Returned("true", g3, <<rope_node>>)

----------------------------------------------------------------------------
(* RoPEFusionIOSlicing: only a fraction of head_size is rotary-embedded     *)

\* makePattern<RoPE>({x, {}, {}}) | makePattern<RoPE>({x, {}, {}, {}})
RoPE3or4(n, x3, x4) ==
    (n :> POr(<<O(n \o "_3"), O(n \o "_4")>>)) @@
    (n \o "_3" :> PWrap("RoPE", <<x3, O("any1"), O("any2")>>, NoAttr, NoPred)) @@
    (n \o "_4" :> PWrap("RoPE", <<x4, O("any3"), O("any4"), O("any5")>>, NoAttr, NoPred))

IOSlicingPattern ==
    Literals @@
    [data |-> PAny(Rank(4)),
     varsplit_len |-> PGConst(<<GSym("ndims"), GSym("end")>>),
     varsplit |-> PWrap("VariadicSplit", <<O("data"), O("k_3"), O("varsplit_len")>>, NoAttr, NoPred),
     x_or_3 |-> POr(<<O("x"), <<"varsplit", 0>>>>),
     x_or_4 |-> POr(<<O("x"), <<"varsplit", 0>>>>),
     y_or |-> POr(<<O("y"), <<"varsplit", 1>>>>),
     result |-> PWrap("Concat", <<O("x_emb"), O("y_or")>>, [axis |-> -1], NoPred)]
    @@ GenSlice("x", O("data"), Lit(0), GSym("ndims"), Lit(1), 3)
    @@ GenSlice("y", O("data"), GSym("ndims"), Lit(IntMax), Lit(1), 3)
    @@ RoPE3or4("x_emb", O("x_or_3"), O("x_or_4"))

\* a callback that does not ask the validator
IOSlicingCallbackUnvalidated(g, m) ==
    LET pm == m.pm
        root == m.root
        rope_node == g[root].ins[1][1]
        obs == Observations(g, IOSlicingPattern, pm)
    IN  IF g[rope_node].op # "RoPE" THEN Returned("false", g, <<>>)
        ELSE IF g[rope_node].cfg.rotary_ndims # SymbolValue(obs, "ndims")
             THEN Returned("false", g, <<>>)
        ELSE LET g1 == SetArgument(g, rope_node, 0, pm["data"])
                 g2 == [g1 EXCEPT ![rope_node].rt = @ \cup {rope_node, pm["result"][1]}]
             IN  Returned("true", ReplaceNode(g2, root, rope_node), <<rope_node>>)

\* a callback that rewires the input of the RoPE node before it compares
\* rotary_ndims
IOSlicingCallbackEager(g, m) ==
    LET pm == m.pm
        root == m.root
        rope_node == g[root].ins[1][1]
        obs == Observations(g, IOSlicingPattern, pm)
    IN  IF g[rope_node].op # "RoPE" THEN Returned("false", g, <<>>)
        ELSE IF ~ValidatorOk(obs, {}) THEN Returned("false", g, <<>>)
        ELSE LET g1 == SetArgument(g, rope_node, 0, pm["data"])
                 g2 == [g1 EXCEPT ![rope_node].rt = @ \cup {rope_node, pm["result"][1]}]
             IN  IF g[rope_node].cfg.rotary_ndims # SymbolValue(obs, "ndims")
                 THEN Returned("false", g1, <<>>)
                 ELSE Returned("true", ReplaceNode(g2, root, rope_node), <<rope_node>>)

\* a callback that does not compare rotary_ndims with the slice length
IOSlicingCallbackAnyWidth(g, m) ==
    LET pm == m.pm
        root == m.root
        rope_node == g[root].ins[1][1]
        obs == Observations(g, IOSlicingPattern, pm)
    IN  IF g[rope_node].op # "RoPE" THEN Returned("false", g, <<>>)
        ELSE IF ~ValidatorOk(obs, {}) THEN Returned("false", g, <<>>)
        ELSE LET g1 == SetArgument(g, rope_node, 0, pm["data"])
                 g2 == [g1 EXCEPT ![rope_node].rt = @ \cup {rope_node, pm["result"][1]}]
             IN  Returned("true", ReplaceNode(g2, root, rope_node), <<rope_node>>)

IOSlicingCallback(g, m) ==
    LET pm == m.pm
        root == m.root
        rope_node == g[root].ins[1][1]
        obs == Observations(g, IOSlicingPattern, pm)
    IN  IF g[rope_node].op # "RoPE" THEN Returned("false", g, <<>>)
        ELSE IF ~ValidatorOk(obs, {}) THEN Returned("false", g, <<>>)
        ELSE IF g[rope_node].cfg.rotary_ndims # SymbolValue(obs, "ndims")
             THEN Returned("false", g, <<>>)
        ELSE \* remove slice & concat
             LET g1 == SetArgument(g, rope_node, 0, pm["data"])
                 g2 == [g1 EXCEPT ![rope_node].rt = @ \cup {rope_node, pm["result"][1]}]
             IN  Returned("true", ReplaceNode(g2, root, rope_node), <<rope_node>>)

----------------------------------------------------------------------------
(* RoPEFusionPreprocess: the slice and the transpose in front of the input  *)

PreprocessPattern ==
    Literals @@
    [input_to_slice |-> PAny(Rank(4)),
     input_to_trans |-> PAny(Rank(4)),
     x_in |-> POr(<<O("input_slice"), O("input_to_trans")>>),
     x |-> PWrap("Transpose", <<O("x_in"), O("k_0213")>>, NoAttr, NoPred)]
    @@ GenSlice("input_slice", O("input_to_slice"), GSym("slice_start"), GSym("slice_stop"),
                Lit(1), 3)
    @@ RoPE3or4("result", O("x"), O("x"))

\* a callback that starts from a default configuration instead of the one
\* the node has
PreprocessCallbackFreshConfig(g, m) ==
    LET pm == m.pm
        root == m.root
        obs == Observations(g, PreprocessPattern, pm)
        rope_node == root
        config == Config
        amended(cfg, arg) ==
            Returned("true", [SetArgument(g, rope_node, 0, arg) EXCEPT ![rope_node].cfg = cfg],
                     <<rope_node>>)
    IN  IF ~ValidatorOk(obs, {}) THEN Returned("false", g, <<>>)
        ELSE IF g[rope_node].op # "RoPE" THEN Returned("false", g, <<>>)
        ELSE IF "input_to_slice" \in DOMAIN pm
             THEN amended([config EXCEPT !.slice_start = SymbolValue(obs, "slice_start"),
                                         !.slice_stop = SymbolValue(obs, "slice_stop"),
                                         !.input_trans0213 = TRUE], pm["input_to_slice"])
        ELSE IF "input_to_trans" \in DOMAIN pm
             THEN amended([config EXCEPT !.input_trans0213 = TRUE], pm["input_to_trans"])
        ELSE Returned("false", g, <<>>)

\* a callback that writes the configuration and leaves the input of the node
\* as it is
PreprocessCallbackKeepingInput(g, m) ==
    LET pm == m.pm
        root == m.root
        obs == Observations(g, PreprocessPattern, pm)
        rope_node == root
        config == g[rope_node].cfg
        amended(cfg, arg) ==
            Returned("true", [g EXCEPT ![rope_node].cfg = cfg], <<rope_node>>)
    IN  IF ~ValidatorOk(obs, {}) THEN Returned("false", g, <<>>)
        ELSE IF g[rope_node].op # "RoPE" THEN Returned("false", g, <<>>)
        ELSE IF "input_to_slice" \in DOMAIN pm
             THEN amended([config EXCEPT !.slice_start = SymbolValue(obs, "slice_start"),
                                         !.slice_stop = SymbolValue(obs, "slice_stop"),
                                         !.input_trans0213 = TRUE], pm["input_to_slice"])
        ELSE IF "input_to_trans" \in DOMAIN pm
             THEN amended([config EXCEPT !.input_trans0213 = TRUE], pm["input_to_trans"])
        ELSE Returned("false", g, <<>>)

PreprocessCallback(g, m) ==
    LET pm == m.pm
        root == m.root
        obs == Observations(g, PreprocessPattern, pm)
        rope_node == root
        config == g[rope_node].cfg
        amended(cfg, arg) ==
            Returned("true", [SetArgument(g, rope_node, 0, arg) EXCEPT ![rope_node].cfg = cfg],
                     <<rope_node>>)
    IN  IF ~ValidatorOk(obs, {}) THEN Returned("false", g, <<>>)
        ELSE IF g[rope_node].op # "RoPE" THEN Returned("false", g, <<>>)
        ELSE IF "input_to_slice" \in DOMAIN pm
             THEN amended([config EXCEPT !.slice_start = SymbolValue(obs, "slice_start"),
                                         !.slice_stop = SymbolValue(obs, "slice_stop"),
                                         !.input_trans0213 = TRUE], pm["input_to_slice"])
        ELSE IF "input_to_trans" \in DOMAIN pm
             THEN amended([config EXCEPT !.input_trans0213 = TRUE], pm["input_to_trans"])
        ELSE Returned("false", g, <<>>)

----------------------------------------------------------------------------
(* RoPEFusionChatGLM(split_output_id, support_2d_rope)                      *)

\* This is a utility function used in the work around in ChatGLM pattern.
\* a check that accepts every triple
chatglm_accept_reshape_symbols(obs) == TRUE

chatglm_validate_reshape_symbols(obs) ==
    LET A == SymbolValue(obs, "A")
        B == SymbolValue(obs, "B")
        C == SymbolValue(obs, "C")
        head_cnt == SymbolValue(obs, "head_cnt")
    IN  \/ (A = -1 /\ B = head_cnt /\ C = 1)      \* ChatGLM4
        \/ (A = 1 /\ B = -1 /\ C = head_cnt)      \* ChatGLM3
        \/ (A = 0 /\ B = 0 /\ C = 0)              \* ChatGLM nano

GatherAt(data, index) ==
    PWrap("Gather", <<data, O(index), O("k_m1")>>, [batch_dims |-> 0], NoPred)

Mul(a, b) == PWrap("Multiply", <<O(a), O(b)>>, [auto_broadcast |-> "numpy"], NoPred)

\* the part of the template both layouts have
ChatGLMCommon(split_output_id, input_key) ==
    Literals @@
    [qkv_linear |-> PAny(Rank(3)),
     seq_length |-> PAny(I32x1),
     cos_sin_cache |-> PAny(Rank(4)),
     k_00 |-> PConst(<<Lit(0), Lit(0)>>),
     k_11 |-> PConst(<<Lit(1), Lit(1)>>),
     qkv_proj_len |-> PGConst(<<GSym("total_size_q"), GSym("total_size_k"), GSym("total_size_v")>>),
     qkv_proj |-> PWrap("VariadicSplit", <<O("qkv_linear"), O("k_m1"), O("qkv_proj_len")>>,
                        NoAttr, NoPred),
     cur_key_shape |-> PGConst(<<Lit(0), Lit(0), GSym("head_cnt"), GSym("head_size")>>),
     cur_key |-> PWrap("Reshape", <<<<"qkv_proj", split_output_id>>, O("cur_key_shape")>>,
                       [special_zero |-> TRUE], NoPred),
     var_split_1_len |-> PGConst(<<GSym("ndims"), GSym("end")>>),
     var_split_1 |-> PWrap("VariadicSplit", <<input_key, O("k_3"), O("var_split_1_len")>>,
                           NoAttr, NoPred),
     \* rotate half
     x_453 |-> POr(<<O("slice_Slice_437"), <<"var_split_1", 0>>>>),
     x_even |-> GatherAt(O("reshape_Reshape_453"), "k_0"),
     x_odd |-> GatherAt(O("reshape_Reshape_453"), "k_1"),
     var_split_2_len |-> PGConst(<<Lit(0), GSym("end_2")>>),
     var_split_2 |-> PWrap("VariadicSplit", <<O("cos_sin_cache"), O("k_0"), O("var_split_2_len")>>,
                           NoAttr, NoPred),
     half_ndims_452 |-> PGConst(<<GDiv("ndims", 2)>>),
     half_ndims_379 |-> PGConst(<<GDiv("ndims", 2)>>),
     cos_tab |-> GatherAt(O("view_Reshape_460"), "k_0"),
     x_even_cos |-> Mul("x_even", "cos_tab"),
     sin_tab |-> GatherAt(O("view_Reshape_460"), "k_1"),
     x_odd_sin |-> Mul("x_odd", "sin_tab"),
     neg_x_odd_sin |-> Mul("x_odd_sin", "k_m1"),
     sub_Subtract_469 |-> PWrap("Add", <<O("x_even_cos"), O("neg_x_odd_sin")>>,
                                [auto_broadcast |-> "numpy"], NoPred),
     y_even_shape |-> PGConst(<<GSym("A"), GSym("B"), GSym("C"), GDiv("ndims", 2), Lit(1)>>),
     y_odd_shape |-> PGConst(<<GSym("A"), GSym("B"), GSym("C"), GDiv("ndims", 2), Lit(1)>>),
     y_even_unsqueeze |-> PWrap("Unsqueeze", <<O("sub_Subtract_469"), O("k_m1")>>, NoAttr, NoPred),
     y_even_reshape |-> PWrap("Reshape", <<O("sub_Subtract_469"), O("y_even_shape")>>,
                              [special_zero |-> FALSE], NoPred),
     y_even |-> POr(<<O("y_even_unsqueeze"), O("y_even_reshape")>>),
     x_odd_cos |-> Mul("x_odd", "cos_tab"),
     x_even_sin |-> Mul("x_even", "sin_tab"),
     add_Add_476 |-> PWrap("Add", <<O("x_odd_cos"), O("x_even_sin")>>,
                           [auto_broadcast |-> "numpy"], NoPred),
     y_odd_unsqueeze |-> PWrap("Unsqueeze", <<O("add_Add_476"), O("k_m1")>>, NoAttr, NoPred),
     y_odd_reshape |-> PWrap("Reshape", <<O("add_Add_476"), O("y_odd_shape")>>,
                             [special_zero |-> FALSE], NoPred),
     y_odd |-> POr(<<O("y_odd_unsqueeze"), O("y_odd_reshape")>>),
     stack_481 |-> PWrap("Concat", <<O("y_even"), O("y_odd")>>, [axis |-> -1], NoPred),
     ShapeOf_135133 |-> PWrap("ShapeOf", <<O("stack_481")>>, NoAttr, NoPred),
     flatten_Concat_500 |-> PWrap("Concat", <<O("flatten_Slice_497"), O("k_m1")>>,
                                  [axis |-> 0], NoPred),
     flatten_Reshape_501 |-> PWrap("Reshape", <<O("stack_481"), O("flatten_shape")>>,
                                   [special_zero |-> TRUE], NoPred),
     pass_through |-> POr(<<O("slice_Slice_443"), <<"var_split_1", 1>>>>),
     cat_Concat_505 |-> PWrap("Concat", <<O("flatten_Reshape_501"), O("pass_through")>>,
                              [axis |-> -1], NoPred),
     result |-> POr(<<O("cat_Concat_505"), O("flatten_Reshape_501")>>)]
    @@ GenSlice("slice_Slice_437", input_key, Lit(0), GSym("ndims"), Lit(1), 3)
    @@ GenSlice("flatten_Slice_497", O("ShapeOf_135133"), Lit(0), Lit(3), Lit(1), 0)
    @@ GenSlice("slice_Slice_443", input_key, GSym("ndims"), Lit(IntMax), Lit(1), 3)

\* key [seq_length, batch, head_cnt, head_size]
ChatGLMPattern1d(split_output_id) ==
    ChatGLMCommon(split_output_id, O("cur_key")) @@
    [head_cnt_1 |-> PGConst(<<GSym("head_cnt")>>),
     ListConstruct_452_Concat |->
         PWrap("Concat", <<O("seq_length"), O("k_m1"), O("head_cnt_1"), O("half_ndims_452"), O("k_2")>>,
               [axis |-> 0], NoPred),
     const_target_shape_0 |->
         PGConst(<<Lit(0), Lit(0), GSym("head_cnt"), GDiv("ndims", 2), Lit(2)>>),
     const_target_shape_1 |->
         PGConst(<<GSym("seq_len"), GSym("batch"), GSym("head_cnt"), GDiv("ndims", 2), Lit(2)>>),
     shape_453 |-> POr(<<O("ListConstruct_452_Concat"), O("const_target_shape_1"),
                         O("const_target_shape_0")>>),
     reshape_Reshape_453 |-> PWrap("Reshape", <<O("x_453"), O("shape_453")>>, NoAttr, NoPred),
     ListConstruct_379_Concat |->
         PWrap("Concat", <<O("seq_length"), O("k_m1"), O("k_1"), O("half_ndims_379"), O("k_2")>>,
               [axis |-> 0], NoPred),
     view_target_shape_0 |-> PGConst(<<Lit(1), Lit(-1), Lit(1), GDiv("ndims", 2), Lit(2)>>),
     const_target_shape_2 |->
         PGConst(<<GSym("seq_len"), GSym("batch"), Lit(1), GDiv("ndims", 2), Lit(2)>>),
     slice_Slice_449 |-> PWrap("Slice", <<O("cos_sin_cache"), O("k_0"), O("seq_length"), O("k_1"),
                                          O("k_0")>>, NoAttr, NoPred),
     cache_in |-> POr(<<O("slice_StridedSlice_449"), O("slice_Slice_449"), <<"var_split_2", 0>>>>),
     view_shape |-> POr(<<O("ListConstruct_379_Concat"), O("view_target_shape_0"),
                          O("const_target_shape_2")>>),
     \* [seq_length, 1, batch, half_rotary_dims, 2]
     view_Reshape_460 |-> PWrap("Reshape", <<O("cache_in"), O("view_shape")>>, NoAttr, NoPred),
     \* [length, batch, head_cnt, half_rotary_dims, 2]
     flatten_target_shape_0 |-> PGConst(<<Lit(0), Lit(0), GSym("head_cnt"), GSym("ndims")>>),
     const_target_shape_3 |->
         PGConst(<<GSym("seq_len"), GSym("batch"), GSym("head_cnt"), GSym("ndims")>>),
     flatten_shape |-> POr(<<O("flatten_Concat_500"), O("const_target_shape_3"),
                             O("flatten_target_shape_0")>>)]
    @@ GenStridedSlice("slice_StridedSlice_449", O("cos_sin_cache"), O("k_0"), O("seq_length"),
                       O("k_1"), 0)

\* transposed key [batch, head_cnt, seq_length, head_size]
ChatGLMPattern2d(split_output_id) ==
    ChatGLMCommon(split_output_id, O("input_key")) @@
    [transposed_cur_key_shape |->
         PGConst(<<Lit(-1), GSym("head_cnt"), Lit(1), GSym("head_size")>>),
     transposed_cur_key |->
         PWrap("Reshape", <<<<"qkv_proj", split_output_id>>, O("transposed_cur_key_shape")>>,
               [special_zero |-> FALSE], NoPred),
     \* Transpose for SDPA version:
     input_key_transpose |-> PWrap("Transpose", <<O("cur_key"), O("k_0213")>>, NoAttr, NoPred),
     input_key |-> POr(<<O("input_key_transpose"), O("transposed_cur_key")>>),
     const_target_shape_1 |->
         PGConst(<<Lit(0), GSym("head_cnt"), Lit(0), GDiv("ndims", 2), Lit(2)>>),
     reshape_Reshape_453 |-> PWrap("Reshape", <<O("x_453"), O("const_target_shape_1")>>,
                                   [special_zero |-> TRUE], NoPred),
     ListConstruct_379_Concat |->
         PWrap("Concat", <<O("k_m1"), O("k_1"), O("seq_length"), O("half_ndims_379"), O("k_2")>>,
               [axis |-> 0], NoPred),
     const_target_shape_2 |->
         PGConst(<<GSym("batch"), Lit(1), GSym("seq_len"), GDiv("ndims", 2), Lit(2)>>),
     \* Slice cos_sin_cache to support 2-dimentional RoPE
     ScatterUpdate |-> PWrap("ScatterUpdate", <<O("k_00"), O("k_1"), O("seq_length"), O("k_0")>>,
                             NoAttr, NoPred),
     slice_Slice_449_1d |-> PWrap("Slice", <<O("cos_sin_cache"), O("k_0"), O("seq_length"), O("k_1"),
                                             O("k_1")>>, NoAttr, NoPred),
     slice_Slice_449_2d |-> PWrap("Slice", <<O("cos_sin_cache"), O("k_00"), O("ScatterUpdate"),
                                             O("k_11"), O("k_0")>>, NoAttr, NoPred),
     ss_stop |-> PWrap("Constant", <<>>, NoAttr, NoPred),
     ss_stop_in |-> POr(<<O("ss_stop"), O("ScatterUpdate")>>),
     cache_in |-> POr(<<O("slice_StridedSlice_449"), O("slice_Slice_449_1d"),
                        O("slice_Slice_449_2d"), <<"var_split_2", 0>>>>),
     view_shape |-> POr(<<O("ListConstruct_379_Concat"), O("const_target_shape_2")>>),
     \* [batch, 1, seq_length, half_rotary_dims, 2]
     view_Reshape_460 |-> PWrap("Reshape", <<O("cache_in"), O("view_shape")>>, NoAttr, NoPred),
     \* [batch, head_cnt, length, half_rotary_dims, 2]
     const_target_shape_3 |->
         PGConst(<<GSym("batch"), GSym("head_cnt"), GSym("seq_len"), GSym("ndims")>>),
     flatten_shape |-> POr(<<O("flatten_Concat_500"), O("const_target_shape_3")>>)]
    @@ GenStridedSlice("slice_StridedSlice_449", O("cos_sin_cache"), O("k_00"), O("ss_stop_in"),
                       O("k_11"), 1)

ChatGLMPattern(split_output_id, support_2d) ==
    IF support_2d THEN ChatGLMPattern2d(split_output_id) ELSE ChatGLMPattern1d(split_output_id)

ChatGLMConfig(obs, split_output_id, support_2d) ==
    LET total_size_q == SymbolValue(obs, "total_size_q") IN
    [Config EXCEPT !.rotary_ndims = SymbolValue(obs, "ndims"),
                   !.is_chatglm = TRUE,
                   !.support_2d_rope = support_2d,
                   !.use_rope_cache = TRUE,
                   !.head_cnt = SymbolValue(obs, "head_cnt"),
                   !.head_size = SymbolValue(obs, "head_size"),
                   \* query : split_output_id == 0; key : split_output_id == 1
                   !.slice_start = IF split_output_id = 0 THEN 0 ELSE total_size_q,
                   !.slice_stop = IF split_output_id = 0 THEN total_size_q
                                  ELSE total_size_q + SymbolValue(obs, "total_size_k")]

\* a callback that does not compare rotary_ndims with head_size
ChatGLMCallbackAnyRotation(g, m, rule) ==
    LET pm == m.pm
        root == m.root
        obs == Observations(g, rule.pat, pm)
        config == ChatGLMConfig(obs, rule.split_output_id, rule.s2d)
    IN  IF ~ValidatorOk(obs, {"batch", "seq_len"}) THEN Returned("false", g, <<>>)
        ELSE IF ~chatglm_validate_reshape_symbols(obs) THEN Returned("false", g, <<>>)
        ELSE LET new_args == <<pm["qkv_linear"], pm["cos_sin_cache"], pm["cos_sin_cache"]>>
                 new_node == Len(g) + 1
                 made == [RoPE(new_args, config, ShapeOf(g, O(root)))
                             EXCEPT !.rt = {g[root].ins[1][1], root}, !.mdl = g[root].mdl]
             IN  Returned("true", ReplaceNode(Append(g, made), root, new_node), <<>>)

ChatGLMCallback(g, m, rule) ==
    LET pm == m.pm
        root == m.root
        obs == Observations(g, rule.pat, pm)
        config == ChatGLMConfig(obs, rule.split_output_id, rule.s2d)
    IN  IF ~ValidatorOk(obs, {"batch", "seq_len"}) THEN Returned("false", g, <<>>)
        \* A temporarily work around until we move to the new Symbols
        ELSE IF ~chatglm_validate_reshape_symbols(obs) THEN Returned("false", g, <<>>)
        ELSE IF g[root].op = "Reshape" /\ config.rotary_ndims # config.head_size
             THEN Returned("false", g, <<>>)
        ELSE LET new_args == <<pm["qkv_linear"], pm["cos_sin_cache"], pm["cos_sin_cache"]>>
                 new_node == Len(g) + 1
                 made == [RoPE(new_args, config, ShapeOf(g, O(root)))
                             EXCEPT !.rt = {g[root].ins[1][1], root}, !.mdl = g[root].mdl]
             IN  Returned("true", ReplaceNode(Append(g, made), root, new_node), <<>>)

----------------------------------------------------------------------------
(* RoPEFusionChatGLMHF                                                      *)

ChatGLMHFPattern ==
    Literals @@
    [qk_linear |-> PAny(Shape(<<Wild, Lit(1), Wild>>)),
     cos |-> PAny(Shape(<<Wild, Lit(1), Lit(1), Wild>>)),
     sin |-> PAny(Shape(<<Wild, Lit(1), Lit(1), Wild>>)),
     reshape |-> PWrap("Reshape", <<O("qk_linear"), O("any1")>>, [special_zero |-> FALSE],
                       Shape(<<Wild, Sym("head_cnt"), Lit(1), Sym("head_size")>>)),
     const_idx |-> PWrap("Constant", <<>>, NoAttr, [Type("i32") EXCEPT !.fn = "const_idx"]),
     repeat_interleave_cos |-> GatherAt(O("cos"), "const_idx"),
     repeat_interleave_sin |-> GatherAt(O("sin"), "const_idx"),
     multiply |-> Mul("slice_1", "repeat_interleave_cos"),
     neg |-> Mul("slice_2", "k_m1"),
     unsqueeze_1 |-> PWrap("Reshape", <<O("neg"), O("any2")>>, [special_zero |-> FALSE],
                           Shape(<<Wild, Sym("head_cnt"), Lit(1), Sym("ndims/2"), Lit(1)>>)),
     unsqueeze_2 |-> PWrap("Reshape", <<O("slice_3"), O("any3")>>, [special_zero |-> FALSE],
                           Shape(<<Wild, Sym("head_cnt"), Lit(1), Sym("ndims/2"), Lit(1)>>)),
     stack |-> PWrap("Concat", <<O("unsqueeze_1"), O("unsqueeze_2")>>, [axis |-> -1], NoPred),
     flatten |-> PWrap("Reshape", <<O("stack"), O("any4")>>, [special_zero |-> TRUE],
                       Shape(<<Wild, Sym("head_cnt"), Lit(1), Sym("ndims")>>)),
     multiply_1 |-> Mul("flatten", "repeat_interleave_sin"),
     add |-> PWrap("Add", <<O("multiply"), O("multiply_1")>>, [auto_broadcast |-> "numpy"], NoPred),
     result |-> PWrap("Concat", <<O("add"), O("slice_5")>>, [axis |-> -1], NoPred)]
    @@ NewGenSlice("slice_1", O("reshape"), Lit(0), Sym("ndims"), Lit(1), 3)
    @@ NewGenSlice("slice_2", O("slice_1"), Lit(1), Lit(IntMax), Lit(2), 3)
    @@ NewGenSlice("slice_3", O("slice_1"), Lit(0), Lit(IntMax), Lit(2), 3)
    @@ NewGenSlice("slice_5", O("reshape"), Sym("ndims"), Lit(IntMax), Lit(1), 3)

ChatGLMHFConfig(ndims, head_cnt, head_size) ==
    [Config EXCEPT !.rotary_ndims = ndims.v, !.is_chatglm = TRUE, !.support_2d_rope = TRUE,
                   !.head_cnt = head_cnt.v, !.head_size = head_size.v]

ChatGLMHFCallback(g, m) ==
    LET pm == m.pm
        root == m.root
        ndims == Symbols(m, "ndims")
        head_cnt == Symbols(m, "head_cnt")
        head_size == Symbols(m, "head_size")
        half_ndims == Symbols(m, "ndims/2")
    IN  IF ~is_integer(ndims) \/ ~is_integer(head_cnt) \/ ~is_integer(head_size)
           \/ ~is_integer(half_ndims) \/ half_ndims.v * 2 # ndims.v
        THEN Returned("false", g, <<>>)
        ELSE LET new_args == <<pm["qk_linear"], pm["cos"], pm["sin"]>>
                 new_node == Len(g) + 1
                 made == [RoPE(new_args, ChatGLMHFConfig(ndims, head_cnt, head_size),
                               ShapeOf(g, O(root)))
                             EXCEPT !.rt = {g[root].ins[1][1], root}, !.mdl = g[root].mdl]
             IN  Returned("true", ReplaceNode(Append(g, made), root, new_node), <<>>)

----------------------------------------------------------------------------
(* RoPEFusionQwen(split_output_id)                                          *)

GatherAxis(data, index, axis) ==
    PWrap("Gather", <<data, O(index), O(axis)>>, [batch_dims |-> 0], NoPred)

\* the cos or the sin table, sliced by the present kv-length or gathered at
\* position_ids; pattern nodes suffixed by n (446: cos, 470: sin)
QwenTable(tab, name, n) ==
    (("slice_Slice_" \o n) :>
        PWrap("Slice", <<O(tab), O("kv_len_" \o n), O("k_max"), O("k_1"), O("k_1")>>, NoAttr, NoPred)) @@
    (("kv_len_" \o n) :> POr(<<O("Gather_377635"), O("neg_Multiply")>>)) @@
    (("gather_" \o name \o "_by_pos_ids") :> GatherAxis(O(tab), "position_ids", "k_1")) @@
    (("reshape_" \o name \o "_to_expected_layout") :>
        PWrap("Reshape", <<O("gather_" \o name \o "_by_pos_ids"), O("any_" \o name)>>,
              [special_zero |-> FALSE], Shape(<<Wild, Lit(1), Lit(1), Lit(128)>>))) @@
    (("any_" \o name) :> PAny(NoPred)) @@
    NewGenStridedSlice("slice_StridedSlice_" \o n, O(tab), O("ScatterUpdate_463814"), O("k_0max"),
                       O("k_11"), 1) @@
    ((name \o "_tab") :> POr(<<O("slice_StridedSlice_" \o n), O("slice_Slice_" \o n),
                               O("reshape_" \o name \o "_to_expected_layout")>>))

QwenPattern(split_output_id) ==
    Literals @@
    [k_m2 |-> PConst(<<Lit(-2)>>), k_32 |-> PConst(<<Lit(32)>>), k_64 |-> PConst(<<Lit(64)>>),
     k_00 |-> PConst(<<Lit(0), Lit(0)>>), k_01 |-> PConst(<<Lit(0), Lit(1)>>),
     k_11 |-> PConst(<<Lit(1), Lit(1)>>), k_0max |-> PConst(<<Lit(0), Lit(IntMax)>>),
     \* rotary_emb_cos & rotary_emb_sin are sliced by present kv-length (past-kv-length + cur_len)
     rotary_emb_cos |-> PAny(Shape(<<Lit(1), Wild, Lit(1), Wild>>)),
     rotary_emb_sin |-> PAny(Shape(<<Lit(1), Wild, Lit(1), Wild>>)),
     qkv_proj |-> PAny(Shape(<<Wild, Wild, Wild>>)),
     position_ids |-> PAny(NoPred),
     ListUnpack_410_len |-> PConst(<<Sym("head_cnt*head_size"), Sym("head_cnt*head_size"), Wild>>),
     ListUnpack_410_VariadicSplit |->
         PWrap("VariadicSplit", <<O("qkv_proj"), O("k_2"), O("ListUnpack_410_len")>>, NoAttr, NoPred),
     \* B,L,H,S
     view_Reshape_424 |->
         PWrap("Reshape", <<<<"ListUnpack_410_VariadicSplit", split_output_id>>, O("any1")>>,
               [special_zero |-> TRUE], Shape(<<Wild, Wild, Sym("head_cnt"), Sym("head_size")>>)),
     ShapeOf_485735 |-> PWrap("ShapeOf", <<O("any2")>>, NoAttr, NoPred),
     Multiply_567524 |-> Mul("ShapeOf_485735", "k_m1"),
     Gather_377635 |-> GatherAxis(O("Multiply_567524"), "k_1", "k_0"),
     ShapeOf_409241 |-> PWrap("ShapeOf", <<O("any3")>>, NoAttr, NoPred),
     Gather_311651 |-> GatherAxis(O("ShapeOf_409241"), "k_1", "k_0"),
     neg_Multiply |-> Mul("Gather_311651", "k_m1"),
     kv_len |-> POr(<<O("Gather_377635"), O("neg_Multiply")>>),
     ScatterUpdate_463814 |->
         PWrap("ScatterUpdate", <<O("k_00"), O("k_1"), O("kv_len"), O("k_0")>>, NoAttr, NoPred),
     mul_Multiply_552 |-> Mul("slice_Slice_543", "cos_tab"),
     \* reshape_opt1(slice_Slice_543)
     ShapeOf_485814 |-> PWrap("ShapeOf", <<O("slice_Slice_543")>>, NoAttr, NoPred),
     Gather_377647 |-> GatherAxis(O("ShapeOf_485814"), "k_1", "k_0"),
     \* batch-size, we don't care
     Gather_377641 |-> PAny(I32x1),
     head_cnt_1 |-> PConst(<<Sym("head_cnt")>>),
     half_head_size_1 |-> PConst(<<Sym("head_size/2")>>),
     ListConstruct_581_Concat |->
         PWrap("Concat", <<O("Gather_377641"), O("Gather_377647"), O("head_cnt_1"), O("k_2"),
                           O("half_head_size_1")>>, [axis |-> 0], NoPred),
     Gather_391791 |-> GatherAxis(O("ShapeOf_485814"), "k_01", "k_0"),
     ListConstruct_522_Concat |->
         PWrap("Concat", <<O("Gather_391791"), O("k_32"), O("k_2"), O("k_64")>>, [axis |-> 0], NoPred),
     reshape_Reshape_577 |->
         PWrap("Reshape", <<O("slice_Slice_543"), O("any4")>>, [special_zero |-> TRUE],
               Shape(<<Wild, Lit(2), Sym("head_size/2")>>)),
     ListConstruct |-> POr(<<O("ListConstruct_581_Concat"), O("ListConstruct_522_Concat")>>),
     reshape_opt1 |-> PWrap("Reshape", <<O("reshape_Reshape_577"), O("ListConstruct")>>,
                            [special_zero |-> FALSE], NoPred),
     reshape_special |->
         PWrap("Reshape", <<O("slice_Slice_543"), O("any5")>>, [special_zero |-> TRUE],
               [NoPred EXCEPT !.shp = << <<Grp(""), Lit(0), Lit(2), Sym("head_size/2")>>,
                                         <<Grp(""), Sym("head_cnt"), Lit(2), Sym("head_size/2")>> >>]),
     split_in |-> POr(<<O("reshape_opt1"), O("reshape_special")>>),
     ListUnpack_586_Split |-> PWrap("Split", <<O("split_in"), O("k_m2")>>, [num_splits |-> 2], NoPred),
     Multiply_567527 |-> PWrap("Multiply", <<<<"ListUnpack_586_Split", 1>>, O("k_m1")>>,
                               [auto_broadcast |-> "numpy"], NoPred),
     ListUnpack_586_Squeeze_0 |-> PWrap("Squeeze", <<O("Multiply_567527"), O("k_m2")>>, NoAttr, NoPred),
     ListUnpack_586_Squeeze |-> PWrap("Squeeze", <<<<"ListUnpack_586_Split", 0>>, O("k_m2")>>,
                                      NoAttr, NoPred),
     ListUnpack_Squeeze_0_1 |->
         PWrap("Reshape", <<O("Multiply_567527"), O("any6")>>, [special_zero |-> FALSE],
               Shape(<<Wild, Lit(1), Lit(32), Lit(64)>>)),
     any7 |-> PAny(NoPred),
     ListUnpack_Squeeze_1 |->
         PWrap("Reshape", <<<<"ListUnpack_586_Split", 0>>, O("any7")>>, [special_zero |-> FALSE],
               Shape(<<Wild, Lit(1), Lit(32), Lit(64)>>)),
     cat_neg |-> POr(<<O("ListUnpack_586_Squeeze_0"), O("ListUnpack_Squeeze_0_1")>>),
     cat_pos |-> POr(<<O("ListUnpack_586_Squeeze"), O("ListUnpack_Squeeze_1")>>),
     cat_Concat_593 |-> PWrap("Concat", <<O("cat_neg"), O("cat_pos")>>, [axis |-> -1], NoPred),
     mul_Multiply_594 |-> Mul("cat_Concat_593", "sin_tab"),
     result |-> PWrap("Add", <<O("mul_Multiply_552"), O("mul_Multiply_594")>>,
                      [auto_broadcast |-> "numpy"], NoPred)]
    @@ NewGenSlice("slice_Slice_543", O("view_Reshape_424"), Lit(0), Sym("head_size"), Lit(1), 3)
    @@ QwenTable("rotary_emb_cos", "cos", "446")
    @@ QwenTable("rotary_emb_sin", "sin", "470")

QwenConfig(head_cnt, head_size, split_output_id, with_positions) ==
    [Config EXCEPT !.is_qwen = TRUE, !.head_cnt = head_cnt.v, !.head_size = head_size.v,
                   !.rotary_ndims = head_size.v,
                   \* query : split_output_id == 0; key : split_output_id == 1
                   !.slice_start = IF split_output_id = 0 THEN 0 ELSE head_cnt.v * head_size.v,
                   !.slice_stop = IF split_output_id = 0 THEN head_cnt.v * head_size.v
                                  ELSE head_cnt.v * head_size.v + head_cnt.v * head_size.v,
                   !.gather_position_arg_id = IF with_positions THEN 3 ELSE 0]

QwenCallback(g, m, rule) ==
    LET pm == m.pm
        root == m.root
        head_cnt == Symbols(m, "head_cnt")
        head_size == Symbols(m, "head_size")
        head_size_over_2 == Symbols(m, "head_size/2")
        head_cnt_by_head_size == Symbols(m, "head_cnt*head_size")
        with_positions == "position_ids" \in DOMAIN pm
        \* pattern_map.at(...) of the nodes the runtime info is copied from
        wanted == {"Multiply_567527", "cat_Concat_593", "mul_Multiply_594", "result"}
                  \cup (IF with_positions THEN {"ListUnpack_Squeeze_0_1", "ListUnpack_Squeeze_1"}
                        ELSE {"ListUnpack_586_Squeeze_0", "ListUnpack_586_Squeeze"})
    IN  IF ~is_integer(head_cnt) \/ ~is_integer(head_size) \/ ~is_integer(head_size_over_2)
           \/ ~is_integer(head_cnt_by_head_size) \/ head_size_over_2.v * 2 # head_size.v
           \/ head_cnt.v * head_size.v # head_cnt_by_head_size.v
        THEN Returned("false", g, <<>>)
        ELSE IF ~(wanted \subseteq DOMAIN pm) THEN Returned("throw", g, <<>>)
        ELSE LET new_args == <<pm["qkv_proj"], pm["rotary_emb_cos"], pm["rotary_emb_sin"]>>
                             \o (IF with_positions THEN <<pm["position_ids"]>> ELSE <<>>)
                 new_node == Len(g) + 1
                 made == [RoPE(new_args,
                               QwenConfig(head_cnt, head_size, rule.split_output_id, with_positions),
                               ShapeOf(g, O(root)))
                             EXCEPT !.rt = NodesOf(pm, wanted), !.mdl = g[root].mdl]
             IN  Returned("true", ReplaceNode(Append(g, made), root, new_node), <<>>)

----------------------------------------------------------------------------
(* RoPEShareCosSin                                                          *)

SharePattern ==
    Literals @@
    [inputs0 |-> PAny(NoPred),
     inputs1 |-> PAny(NoPred),
     const_inv_freq |-> PWrap("Constant", <<>>, NoAttr, NoPred),
     Constant_58774 |-> [PGConst(<<Lit(0)>>) EXCEPT !.pred = Type("u8")],
     Broadcast_58775 |-> PWrap("Broadcast", <<O("k_1"), O("inputs0"), O("Constant_58774")>>,
                               [mode |-> "numpy"], NoPred),
     expand_Broadcast |-> PWrap("Multiply", <<O("const_inv_freq"), O("Broadcast_58775")>>,
                                [auto_broadcast |-> "numpy"], NoPred),
     matmul_MatMul |-> PWrap("MatMul", <<O("expand_Broadcast"), O("inputs1")>>,
                             [transpose_a |-> FALSE, transpose_b |-> FALSE], NoPred),
     k_021 |-> PConst(<<Lit(0), Lit(2), Lit(1)>>),
     transpose_Transpose |-> PWrap("Transpose", <<O("matmul_MatMul"), O("k_021")>>, NoAttr, NoPred),
     cat_Concat |-> PWrap("Concat", <<O("transpose_Transpose"), O("transpose_Transpose")>>,
                          [axis |-> -1], NoPred),
     cos_Cos |-> PWrap("Cos", <<O("cat_Concat")>>, NoAttr, NoPred),
     sin_Sin |-> PWrap("Sin", <<O("cat_Concat")>>, NoAttr, NoPred),
     cos_or_sin |-> POr(<<O("cos_Cos"), O("sin_Sin")>>),
     result |-> PWrap("Unsqueeze", <<O("cos_or_sin"), O("k_1")>>, NoAttr, NoPred)]

\* a comparison of the first element only
SameFirstElement(cur, global) == cur.val[1] = global.val[1]

\* memcmp(cur->get_data_ptr(), global->get_data_ptr(), global->get_byte_size())
SameBytes(cur, global) == \A i \in DOMAIN global.val : cur.val[i] = global.val[i]

\* check consts are the same as the one to be shared
SameConst(cur, global) ==
    /\ cur.et = global.et
    /\ cur.shp[1] = global.shp[1]
    /\ SameBytes(cur, global)

\* check all inputs are the same as the one to be shared
SameInputs(pm, shared) == \A i \in 1..2 : shared[i] = pm[<<"inputs0", "inputs1">>[i]][1]

\* a check that takes either seed for the seed of both branches
ShareSeedMissingBoth(is_sin_matched, S) == S.sin0 = 0 /\ S.cos0 = 0

\* is_sin_matched && !m_shared_sin0, !is_sin_matched && !m_shared_cos0: the
\* matched branch has no seed yet
ShareSeedMissing(is_sin_matched, S) ==
    \/ is_sin_matched /\ S.sin0 = 0
    \/ ~is_sin_matched /\ S.cos0 = 0

\* a replacement that does not look at the branch
ShareReplacementCos(pm, S) == S.cos0

\* the node that replaces a later match: the seed of the matched branch
ShareReplacement(pm, S) == IF "sin_Sin" \in DOMAIN pm THEN S.sin0 ELSE S.cos0

\* a callback that captures the constant and the inputs of every match
ShareCallbackRecapturing(g, m) ==
    LET pm == m.pm
        root == m.root
        S0 == ShareState
        keep(r) == [Returned(r, g, <<>>) EXCEPT !.share = S0]
    IN  IF ~ValidatorOk(Observations(g, SharePattern, pm), {}) THEN keep("false")
        ELSE IF "const_inv_freq" \notin DOMAIN pm THEN keep("false")
        ELSE IF g[pm["const_inv_freq"][1]].op # "Constant" THEN keep("false")
        ELSE
        LET cur_inv_freq == pm["const_inv_freq"][1]
            S1 == [S0 EXCEPT !.inputs = <<pm["inputs0"][1], pm["inputs1"][1]>>,
                             !.inv_freq = cur_inv_freq]
            is_sin_matched == "sin_Sin" \in DOMAIN pm
            out(r, gg, S) == [Returned(r, gg, <<>>) EXCEPT !.share = S]
        IN  IF ~SameConst(g[cur_inv_freq], g[S1.inv_freq]) THEN out("false", g, S1)
            ELSE IF ~SameInputs(pm, S1.inputs) THEN out("false", g, S1)
            ELSE IF ShareSeedMissing(is_sin_matched, S1)
                 THEN out("false", g, IF is_sin_matched THEN [S1 EXCEPT !.sin0 = root]
                                      ELSE [S1 EXCEPT !.cos0 = root])
            ELSE out("true", ReplaceNode(g, root, ShareReplacement(pm, S1)), S1)

ShareCallback(g, m) ==
    LET pm == m.pm
        root == m.root
        S0 == ShareState
        keep(r) == [Returned(r, g, <<>>) EXCEPT !.share = S0]
    IN  IF ~ValidatorOk(Observations(g, SharePattern, pm), {}) THEN keep("false")
        ELSE IF "const_inv_freq" \notin DOMAIN pm THEN keep("false")
        ELSE IF g[pm["const_inv_freq"][1]].op # "Constant" THEN keep("false")
        ELSE
        LET cur_inv_freq == pm["const_inv_freq"][1]
            \* the first match is the one to be shared
            S1 == IF S0.inv_freq = 0
                  THEN [S0 EXCEPT !.inputs = <<pm["inputs0"][1], pm["inputs1"][1]>>,
                                  !.inv_freq = cur_inv_freq]
                  ELSE S0
            is_sin_matched == "sin_Sin" \in DOMAIN pm
            out(r, gg, S) == [Returned(r, gg, <<>>) EXCEPT !.share = S]
        IN  IF ~SameConst(g[cur_inv_freq], g[S1.inv_freq]) THEN out("false", g, S1)
            ELSE IF ~SameInputs(pm, S1.inputs) THEN out("false", g, S1)
            ELSE IF ShareSeedMissing(is_sin_matched, S1)
                 THEN out("false", g, IF is_sin_matched THEN [S1 EXCEPT !.sin0 = root]
                                      ELSE [S1 EXCEPT !.cos0 = root])
            ELSE out("true", ReplaceNode(g, root, ShareReplacement(pm, S1)), S1)

----------------------------------------------------------------------------
(* Graphs the rules are run on.                                             *)

\* the scenarios that differ from base in at most n of the fields
Near(S, base, fields, n) == {p \in S : Cardinality({f \in fields : p[f] # base[f]}) <= n}

\* x[B,H,L,S] -> reshape [B,H,L,S/2,2] -> split -> concat(-x1_1, x1_0) ->
\* reshape [B,H,L,S] ; y = x * t_cos + x3 * t_sin, transposed to [B,L,H,S]
\* where p.trans
FluxGraph(p) ==
    LET B == p.B
        L == IF p.B >= 0 THEN 16 ELSE -2
        xs == <<B, p.H, L, p.S>>
        hs == IF p.S >= 0 THEN p.S \div 2 ELSE -5
        x5 == <<B, p.H, L, hs, 2>>
        x51 == <<B, p.H, L, hs, 1>>
        x4 == <<B, p.H, L, hs>>
        x3s == IF p.x3perm THEN <<B, L, p.H, p.S>> ELSE xs
        neg == IF p.neg = "squeeze_first" THEN 10 ELSE 9
        cat1 == IF p.neg = "plain" THEN 9 ELSE 11
        gap == Const("i64", <<>>, <<0>>)
    IN  << Param("f32", xs),                                                      \* 1 x
           Param("f32", <<1, 1, L, p.S>>),                                        \* 2 t_cos
           Param("f32", <<1, 1, L, p.S>>),                                        \* 3 t_sin
           Const("i64", <<5>>, <<0, 0, 0, -1, 2>>),                               \* 4
           Op("Reshape", <<O(1), O(4)>>, x5, [special_zero |-> TRUE]),            \* 5 x1
           Const("i64", <<>>, <<-1>>),                                            \* 6 axis
           OpN("Split", <<O(5), O(6)>>, <<x51, x51>>, [num_splits |-> 2]),        \* 7 split
           Const("f32", <<>>, <<-1>>),                                            \* 8 -1
           CASE p.neg = "plain" ->
                  Op("Multiply", <<<<7, 1>>, O(8)>>, x51, [auto_broadcast |-> "numpy"])
             [] p.neg = "squeeze_first" -> Op("Squeeze", <<<<7, 1>>, O(6)>>, x4, NoAttr)
             [] OTHER -> Op("Multiply", <<<<7, 1>>, O(8)>>, x51, [auto_broadcast |-> "numpy"]), \* 9
           CASE p.neg = "plain" -> gap
             [] p.neg = "squeeze_first" ->
                  Op("Multiply", <<O(9), O(8)>>, x4, [auto_broadcast |-> "numpy"])
             [] OTHER -> Op("Squeeze", <<O(9), O(6)>>, x4, NoAttr),               \* 10
           IF p.neg = "plain" THEN gap
           ELSE Op("Unsqueeze", <<O(10), O(6)>>, x51, NoAttr),                    \* 11
           Op("Concat", <<O(cat1), <<7, 0>>>>, x5, [axis |-> -1]),                \* 12 x2
           Const("i64", <<4>>, <<0, 0, 0, -1>>),                                  \* 13
           Op("Reshape", <<O(12), O(13)>>, x3s, [special_zero |-> TRUE]),         \* 14 x3
           Op("Multiply", IF p.swap THEN <<O(2), O(1)>> ELSE <<O(1), O(2)>>, xs,
              [auto_broadcast |-> "numpy"]),                                      \* 15 y1
           Op("Multiply", <<O(14), O(3)>>, x3s, [auto_broadcast |-> "numpy"]),    \* 16 y2
           Op("Add", IF p.swapadd THEN <<O(16), O(15)>> ELSE <<O(15), O(16)>>, xs,
              [auto_broadcast |-> "numpy"]),                                      \* 17 y
           IF p.trans THEN Const("i64", <<4>>, <<0, 2, 1, 3>>)
           ELSE Result(O(17)) >>                                                  \* 18
        \o (IF p.trans
            THEN << Op("Transpose", <<O(17), O(18)>>, <<B, L, p.H, p.S>>, NoAttr), \* 19
                    Result(O(19)) >>                                              \* 20
            ELSE <<>>)

\* x[B,H,L,S]; rotate_half(x) = concat(-x[..., half:], x[..., :half]);
\* y = a * b + rotate_half(x) * sin, with {a, b} = {x or another tensor, cos}
NeoxGraph(p) ==
    LET B == -1
        L == -2
        xs == <<B, p.H, L, p.S>>
        hs == <<B, p.H, L, p.half>>
        ts == <<1, 1, L, p.S>>
        nb == [auto_broadcast |-> "numpy"]
        fst == IF p.via = "split" THEN <<10, 0>> ELSE O(10)
        snd == IF p.via = "split" THEN <<10, 1>> ELSE O(11)
        xa == IF p.other THEN O(4) ELSE O(1)
    IN  << Param("f32", xs),                                                      \* 1 x
           Param("f32", ts),                                                      \* 2 cos
           Param("f32", ts),                                                      \* 3 sin
           Param("f32", xs),                                                      \* 4 another tensor
           CASE p.via = "slice" -> Const("i64", <<1>>, <<0>>)
             [] p.via = "ss" -> Const("i64", <<4>>, <<0, 0, 0, 0>>)
             [] OTHER -> Const("i64", <<>>, <<3>>),                               \* 5 start / axis
           CASE p.via = "slice" -> Const(p.et, <<1>>, <<p.half>>)
             [] p.via = "ss" -> Const(p.et, <<4>>, <<0, 0, 0, p.half>>)
             [] OTHER -> Const(p.et, <<2>>, <<p.half, p.S - p.half>>),            \* 6 half / lengths
           CASE p.via = "ss" -> Const("i64", <<4>>, <<0, 0, 0, IntMax>>)
             [] OTHER -> Const("i64", <<1>>, <<IntMax>>),                         \* 7 stop
           CASE p.via = "ss" -> Const("i64", <<4>>, <<1, 1, 1, 1>>)
             [] OTHER -> Const("i64", <<1>>, <<1>>),                              \* 8 step
           Const("i64", <<1>>, <<3>>),                                            \* 9 axis
           CASE p.via = "slice" -> Op("Slice", <<O(1), O(5), O(6), O(8), O(9)>>, hs, NoAttr)
             [] p.via = "ss" -> Op("StridedSlice", <<O(1), O(5), O(6), O(8)>>, hs, SliceMasks(3))
             [] OTHER -> OpN("VariadicSplit", <<O(1), O(5), O(6)>>, <<hs, hs>>, NoAttr), \* 10 x1
           CASE p.via = "slice" -> Op("Slice", <<O(1), O(6), O(7), O(8), O(9)>>, hs, NoAttr)
             [] p.via = "ss" -> Op("StridedSlice", <<O(1), O(6), O(7), O(8)>>, hs, SliceMasks(3))
             [] OTHER -> Const("i64", <<>>, <<0>>),                               \* 11 x2
           Const("f32", <<>>, <<-1>>),                                            \* 12
           Op("Multiply", <<snd, O(12)>>, hs, nb),                                \* 13 x2neg
           Op("Concat", <<O(13), fst>>, xs, [axis |-> -1]),                       \* 14 rotate_half
           Op("Multiply", IF p.swap THEN <<O(2), xa>> ELSE <<xa, O(2)>>, xs, nb), \* 15 mul_cos
           Op("Multiply", <<O(14), O(3)>>, xs, nb),                               \* 16 mul_sin
           Op("Add", IF p.swapadd THEN <<O(16), O(15)>> ELSE <<O(15), O(16)>>, xs, nb), \* 17
           Result(O(17)) >>                                                       \* 18

NeoxScenarios ==
    Near([kind : {"neox"}, H : {32}, S : {64}, half : {32}, via : {"slice", "ss", "split"},
          et : {"i64", "f32"}, swap : BOOLEAN, swapadd : BOOLEAN, other : BOOLEAN, s2d : {FALSE}],
         [via |-> "slice", et |-> "i64", swap |-> FALSE, swapadd |-> FALSE, other |-> FALSE],
         {"via", "et", "swap", "swapadd", "other"}, 2)

\* one layer's cos/sin preparation: unsqueeze(cos|sin(concat(t, t))) with
\* t = transpose(matmul(inv_freq * broadcast(1, in0), in1)); nodes b+1 .. b+16
ShareLayer(b, in0, in1, c, k) ==
    LET B == -1
        L == -2
        at(n) == [n EXCEPT !.mdl = k]
        sh(n, ins) == [n EXCEPT !.ins = [i \in DOMAIN ins |-> IF ins[i][1] > 0 THEN <<b + ins[i][1], ins[i][2]>>
                                                               ELSE <<-ins[i][1], ins[i][2]>>]]
        op(o, ins, shape, attr) == at(sh(Op(o, <<>>, shape, attr), ins))
    IN  << at(c),                                                                 \* 1 inv_freq
           at(Const("f32", <<1, 1, 1>>, <<1>>)),                                  \* 2
           at(Const("u8", <<>>, <<0>>)),                                          \* 3
           op("Broadcast", <<O(2), O(-in0), O(3)>>, <<B, 1, 1>>, [mode |-> "numpy"]),      \* 4
           op("Multiply", <<O(1), O(4)>>, <<B, 2, 1>>, [auto_broadcast |-> "numpy"]),      \* 5
           op("MatMul", <<O(5), O(-in1)>>, <<B, 2, L>>,
              [transpose_a |-> FALSE, transpose_b |-> FALSE]),                    \* 6
           at(Const("i64", <<3>>, <<0, 2, 1>>)),                                  \* 7
           op("Transpose", <<O(6), O(7)>>, <<B, L, 2>>, NoAttr),                  \* 8
           op("Concat", <<O(8), O(8)>>, <<B, L, 4>>, [axis |-> -1]),              \* 9
           op("Cos", <<O(9)>>, <<B, L, 4>>, NoAttr),                              \* 10
           op("Sin", <<O(9)>>, <<B, L, 4>>, NoAttr),                              \* 11
           at(Const("i64", <<>>, <<1>>)),                                         \* 12
           op("Unsqueeze", <<O(10), O(12)>>, <<B, 1, L, 4>>, NoAttr),             \* 13
           op("Unsqueeze", <<O(11), O(12)>>, <<B, 1, L, 4>>, NoAttr),             \* 14
           op("Result", <<O(13)>>, <<>>, NoAttr),                                 \* 15
           op("Result", <<O(14)>>, <<>>, NoAttr) >>                               \* 16

InvFreq(how) ==
    CASE how = "val" -> Const("f32", <<1, 2, 1>>, <<10, 3>>)
      [] how = "et" -> Const("f16", <<1, 2, 1>>, <<10, 1>>)
      [] how = "shape" -> Const("f32", <<2, 1, 1>>, <<10, 1>>)
      [] OTHER -> Const("f32", <<1, 2, 1>>, <<10, 1>>)

\* layers of model 1 that feed on the same or on different inputs and
\* constants, and possibly a second, independent model with one more layer
ShareGraph(p) ==
    LET in(k) == [Param("f32", <<-1, 1, -2>>) EXCEPT !.mdl = k]
    IN  << in(1), in(1), in(1), in(1), in(2), in(2) >>
        \o ShareLayer(6, 1, 2, InvFreq(p.c1), 1)
        \o ShareLayer(22, IF p.in2 = "in0" THEN 3 ELSE 1, IF p.in2 = "in1" THEN 4 ELSE 2,
                      InvFreq(p.c2), 1)
        \o (CASE p.third = "same" -> ShareLayer(38, 1, 2, InvFreq("same"), 1)
              [] p.third = "model2" -> ShareLayer(38, 5, 6, InvFreq("same"), 2)
              [] OTHER -> <<>>)

ShareScenarios ==
    {p \in [kind : {"share"}, c1 : {"same", "val"}, c2 : {"same", "val", "et", "shape"},
            in2 : {"same", "in0", "in1"}, third : {"none", "same", "model2"}, s2d : {FALSE}] :
        p.third = "none" \/ (p.c1 = "same" /\ p.c2 \in {"same", "val"} /\ p.in2 \in {"same", "in0"})}

\* ChatGLM: qkv -> split -> key [.., H, S]; the first nd of S rotated in
\* interleaved pairs with the cos/sin cache, the rest passed through
ChatGLMGraph(p) ==
    LET L == -1
        B == -2
        H == 2
        nd == 4
        nh == IF p.bad = "ndims" THEN 1 ELSE 2
        hc == IF p.bad = "head_cnt" THEN 3 ELSE H
        d2 == p.layout = "2d"
        key == IF d2 THEN 10 ELSE 8
        ks == IF d2 THEN <<B, H, L, p.S>> ELSE <<L, B, H, p.S>>
        rs == IF d2 THEN <<B, H, L, nd>> ELSE <<L, B, H, nd>>
        r5 == IF d2 THEN <<B, H, L, 2, 2>> ELSE <<L, B, H, 2, 2>>
        r4 == IF d2 THEN <<B, H, L, 2>> ELSE <<L, B, H, 2>>
        r41 == IF d2 THEN <<B, H, L, 2, 1>> ELSE <<L, B, H, 2, 1>>
        c5 == IF d2 THEN <<B, 1, L, 2, 2>> ELSE <<L, 1, B, 2, 2>>
        c4 == IF d2 THEN <<B, 1, L, 2>> ELSE <<L, 1, B, 2>>
        nb == [auto_broadcast |-> "numpy"]
        bd == [batch_dims |-> 0]
        gap == Const("i64", <<>>, <<0>>)
        abc(odd) == CASE p.abc = "glm3" -> <<1, -1, H, 2, 1>>
                      [] p.abc = "glm4" -> <<-1, H, 1, 2, 1>>
                      [] p.abc = "differ" -> IF odd THEN <<1, -1, H, 2, 1>> ELSE <<-1, H, 1, 2, 1>>
                      [] OTHER -> <<0, -1, H, 2, 1>>
        y(in, shape) == IF p.abc = "unsqueeze" THEN Op("Unsqueeze", <<O(in), O(5)>>, r41, NoAttr)
                        ELSE Op("Reshape", <<O(in), O(shape)>>, r41, [special_zero |-> FALSE])
    IN  << Param("f32", IF d2 THEN <<B, L, 4 * p.S>> ELSE <<L, B, 4 * p.S>>),          \* 1 qkv_linear
           Param("i32", <<1>>),                                                        \* 2 seq_length
           Param("f32", IF d2 THEN <<B, 64, 2, 2>> ELSE <<64, B, 2, 2>>),              \* 3 cos_sin_cache
           \* the split lengths; VariadicSplit takes one length of -1: the rest
           Const("i64", <<3>>, <<H * p.S, IF p.rest = "k" THEN -1 ELSE p.S, p.S>>),    \* 4
           Const("i64", <<>>, <<-1>>),                                                 \* 5
           OpN("VariadicSplit", <<O(1), O(5), O(4)>>,
               <<<<L, B, H * p.S>>, <<L, B, p.S>>, <<L, B, p.S>>>>, NoAttr),           \* 6 qkv_proj
           Const("i64", <<4>>, <<0, 0, H, p.S>>),                                      \* 7
           Op("Reshape", <<<<6, p.id>>, O(7)>>, <<L, B, H, p.S>>, [special_zero |-> TRUE]), \* 8 cur_key
           IF d2 THEN Const("i64", <<4>>, <<0, 2, 1, 3>>) ELSE gap,                    \* 9
           IF d2 THEN Op("Transpose", <<O(8), O(9)>>, ks, NoAttr) ELSE gap,            \* 10
           Const("i64", <<1>>, <<0>>),                                                 \* 11
           Const("i64", <<1>>, <<nd>>),                                                \* 12
           Const("i64", <<1>>, <<1>>),                                                 \* 13
           Const("i64", <<1>>, <<3>>),                                                 \* 14
           Op("Slice", <<O(key), O(11), O(12), O(13), O(14)>>, rs, NoAttr),            \* 15 slice_Slice_437
           Const("i64", <<5>>, IF d2 THEN <<0, hc, 0, nh, 2>> ELSE <<0, 0, hc, nh, 2>>), \* 16
           Op("Reshape", <<O(15), O(16)>>, r5, [special_zero |-> TRUE]),               \* 17 reshape_Reshape_453
           Const("i64", <<>>, <<0>>),                                                  \* 18
           Const("i64", <<>>, <<1>>),                                                  \* 19
           Op("Gather", <<O(17), O(18), O(5)>>, r4, bd),                               \* 20 x_even
           Op("Gather", <<O(17), O(19), O(5)>>, r4, bd),                               \* 21 x_odd
           Op("Slice", <<O(3), O(11), O(2), O(13), IF d2 THEN O(13) ELSE O(11)>>,
              IF d2 THEN <<B, L, 2, 2>> ELSE <<L, B, 2, 2>>, NoAttr),                  \* 22 slice_Slice_449
           Const("i64", <<5>>, IF d2 THEN <<-1, 1, 1, 2, 2>> ELSE <<1, -1, 1, 2, 2>>), \* 23
           Op("Reshape", <<O(22), O(23)>>, c5, [special_zero |-> FALSE]),              \* 24 view_Reshape_460
           Op("Gather", <<O(24), O(18), O(5)>>, c4, bd),                               \* 25 cos_tab
           Op("Gather", <<O(24), O(19), O(5)>>, c4, bd),                               \* 26 sin_tab
           Op("Multiply", <<O(20), O(25)>>, r4, nb),                                   \* 27 x_even_cos
           Op("Multiply", <<O(21), O(26)>>, r4, nb),                                   \* 28 x_odd_sin
           Const("f32", <<>>, <<-1>>),                                                 \* 29
           Op("Multiply", <<O(28), O(29)>>, r4, nb),                                   \* 30 neg_x_odd_sin
           Op("Add", <<O(27), O(30)>>, r4, nb),                                        \* 31 sub_Subtract_469
           Const("i64", <<5>>, abc(FALSE)),                                            \* 32
           y(31, 32),                                                                  \* 33 y_even
           Op("Multiply", <<O(21), O(25)>>, r4, nb),                                   \* 34 x_odd_cos
           Op("Multiply", <<O(20), O(26)>>, r4, nb),                                   \* 35 x_even_sin
           Op("Add", <<O(34), O(35)>>, r4, nb),                                        \* 36 add_Add_476
           Const("i64", <<5>>, abc(TRUE)),                                             \* 37
           y(36, 37),                                                                  \* 38 y_odd
           Op("Concat", <<O(33), O(38)>>, r5, [axis |-> -1]),                          \* 39 stack_481
           Const("i64", <<4>>, IF d2 THEN <<0, H, 0, nd>>
                               ELSE <<IF p.mixed THEN -1 ELSE 0, 0, H, nd>>),          \* 40
           Op("Reshape", <<O(39), O(40)>>, rs, [special_zero |-> TRUE]),               \* 41 flatten_Reshape_501
           Const("i64", <<1>>, <<IntMax>>),                                            \* 42
           Op("Slice", <<O(key), O(12), O(42), O(13), O(14)>>, rs, NoAttr),            \* 43 slice_Slice_443
           Op("Concat", <<O(41), O(43)>>, ks, [axis |-> -1]),                          \* 44 cat_Concat_505
           Result(IF p.full THEN O(41) ELSE O(44)) >>                                  \* 45

ChatGLMScenarios ==
    LET all == [kind : {"chatglm"}, id : {0, 1}, layout : {"1d", "2d"}, S : {4, 8},
                bad : {"none", "ndims", "head_cnt"},
                abc : {"unsqueeze", "glm3", "glm4", "differ", "other"},
                mixed : BOOLEAN, full : BOOLEAN, rest : {"none", "k"}, s2d : BOOLEAN]
        base == [id |-> 0, S |-> 8, bad |-> "none", abc |-> "glm3", mixed |-> FALSE,
                 full |-> FALSE, rest |-> "none", s2d |-> TRUE]
    IN  Near(all, base, {"id", "S", "bad", "abc", "mixed", "full", "rest", "s2d"}, 1)
        \cup {p \in Near(all, base, {"id", "bad", "abc", "mixed", "rest", "s2d"}, 0) :
                 p.S = 4 /\ p.full}
        \cup {p \in Near(all, base, {"S", "bad", "abc", "mixed", "full", "s2d"}, 0) :
                 p.id = 1 /\ p.rest = "k"}

\* GPT-J: x[B,L,H,S], the first ndims of S rotated in interleaved pairs with
\* the gathered sin/cos table [1,L,ndims], the rest passed through
GPTJGraph(p) ==
    LET B == -1
        L == -2
        H == 4
        nd == 4
        nb == [auto_broadcast |-> "numpy"]
        xr == <<B, L, H, nd>>
        xh == <<B, L, H, 2>>
        x5 == <<B, L, H, 2, 1>>
        th == <<1, L, 2>>
        tu == <<1, L, 1, 2>>
        tr == <<1, L, 1, IF p.idx = "odd" THEN 1 ELSE nd>>
        idx == IF p.idx = "odd" THEN <<0>> ELSE <<0, 0, 1, 1>>
        out == IF p.trans THEN 33 ELSE 31
    IN  << Param("f32", <<B, L, H, 8>>),                                          \* 1 view_Reshape
           Param("f32", <<1, L, nd>>),                                            \* 2 gather_sin_cos
           Const("i64", <<>>, <<-1>>),                                            \* 3
           Const(p.et, <<2>>, <<p.half, -1>>),                                    \* 4 ndims/2, -1
           OpN("VariadicSplit", <<O(2), O(3), O(4)>>, <<th, th>>, NoAttr),        \* 5 varsplit
           Const("i64", <<2>>, <<nd, 8 - nd>>),                                   \* 6 ndims, end
           Const("i64", <<>>, <<3>>),                                             \* 7
           OpN("VariadicSplit", <<O(1), O(7), O(6)>>, <<xr, xr>>, NoAttr),        \* 8
           Const("i64", <<>>, <<2>>),                                             \* 9
           Op("Unsqueeze", <<<<5, 0>>, O(9)>>, tu, NoAttr),                       \* 10
           Const("i32", <<Len(idx)>>, idx),                                       \* 11 const_idx
           Op("Gather", <<O(10), O(11), O(7)>>, tr, [batch_dims |-> 0]),          \* 12 sin
           Op("Unsqueeze", <<<<5, 1>>, O(9)>>, tu, NoAttr),                       \* 13
           Op("Gather", <<O(13), O(11), O(7)>>, tr, [batch_dims |-> 0]),          \* 14 cos
           Const("i64", <<1>>, <<1>>),                                            \* 15 start 1
           Const("i64", <<1>>, <<IntMax>>),                                       \* 16 stop
           Const("i64", <<1>>, <<2>>),                                            \* 17 step 2
           Const("i64", <<1>>, <<3>>),                                            \* 18 axis
           Const("i64", <<1>>, <<0>>),                                            \* 19 start 0
           Op("Slice", <<<<8, 0>>, O(15), O(16), O(17), O(18)>>, xh, NoAttr),     \* 20 x[..., 1::2]
           Op("Multiply", <<O(20), O(3)>>, xh, nb),                               \* 21 neg
           Op("Unsqueeze", <<O(21), O(3)>>, x5, NoAttr),                          \* 22
           Op("Slice", <<<<8, 0>>, O(19), O(16), O(17), O(18)>>, xh, NoAttr),     \* 23 x[..., 0::2]
           Op("Unsqueeze", <<O(23), O(3)>>, x5, NoAttr),                          \* 24
           Op("Concat", <<O(22), O(24)>>, <<B, L, H, 2, 2>>, [axis |-> -1]),      \* 25 stack
           Const("i64", <<4>>, <<0, 0, H, nd>>),                                  \* 26
           Op("Reshape", <<O(25), O(26)>>, xr, [special_zero |-> TRUE]),          \* 27 flatten
           Op("Multiply", <<<<8, 0>>, O(14)>>, xr, nb),                           \* 28 mul_cos
           Op("Multiply", <<O(27), O(12)>>, xr, nb),                              \* 29 mul_sin
           Op("Add", <<O(28), O(29)>>, xr, nb),                                   \* 30 rotary_emb
           Op("Concat", <<O(30), <<8, 1>>>>, <<B, L, H, 8>>, [axis |-> -1]),      \* 31 result
           Const("i64", <<4>>, <<0, 2, 1, 3>>),                                   \* 32
           Op("Transpose", <<O(31), O(32)>>, <<B, H, L, 8>>, NoAttr),             \* 33
           Result(O(out)) >>                                                      \* 34

GPTJScenarios ==
    {p \in [kind : {"gptj"}, half : {2, 3}, et : {"i64", "f32"}, trans : BOOLEAN,
            idx : {"even", "odd"}, s2d : {FALSE}] :
        (p.half = 2 /\ p.et = "i64") \/ (~p.trans /\ p.idx = "even" /\ (p.half = 2 \/ p.et = "i64"))}

\* ChatGLM (HF export): qk[B,1,H*S] viewed as [B,H,1,S], the first ndims of
\* S rotated in interleaved pairs, the rest passed through
ChatGLMHFGraph(p) ==
    LET B == -1
        H == p.hc
        nd == 4
        nb == [auto_broadcast |-> "numpy"]
        xs == <<B, H, 1, 8>>
        xr == <<B, H, 1, nd>>
        xh == <<B, H, 1, 2>>
        x5 == <<B, H, 1, 2, 1>>
        tr == <<B, 1, 1, IF p.idx = "odd" THEN 1 ELSE nd>>
        idx == IF p.idx = "odd" THEN <<0>> ELSE <<0, 0, 1, 1>>
        from == IF p.bad = "ndims" THEN 2 ELSE nd
    IN  << Param("f32", <<B, 1, 16>>),                                            \* 1 qk_linear
           Param("f32", <<B, 1, 1, 2>>),                                          \* 2 cos
           Param("f32", <<B, 1, 1, 2>>),                                          \* 3 sin
           Const("i64", <<4>>, <<-1, 2, 1, 8>>),                                  \* 4
           Op("Reshape", <<O(1), O(4)>>, xs, [special_zero |-> FALSE]),           \* 5 reshape
           Const("i32", <<Len(idx)>>, idx),                                       \* 6 const_idx
           Const("i64", <<>>, <<-1>>),                                            \* 7
           Op("Gather", <<O(2), O(6), O(7)>>, tr, [batch_dims |-> 0]),               \* 8 cos
           Op("Gather", <<O(3), O(6), O(7)>>, tr, [batch_dims |-> 0]),               \* 9 sin
           Const("i64", <<1>>, <<0>>),                                            \* 10
           Const("i64", <<1>>, <<nd>>),                                           \* 11 ndims
           Const("i64", <<1>>, <<1>>),                                            \* 12
           Const("i64", <<1>>, <<3>>),                                            \* 13 axis
           Const("i64", <<1>>, <<IntMax>>),                                       \* 14
           Const("i64", <<1>>, <<2>>),                                            \* 15
           Op("Slice", <<O(5), O(10), O(11), O(12), O(13)>>, xr, NoAttr),         \* 16 slice_1
           Op("Slice", <<O(16), O(12), O(14), O(15), O(13)>>, xh, NoAttr),        \* 17 slice_2
           Op("Multiply", <<O(17), O(7)>>, xh, nb),                               \* 18 neg
           Const("i64", <<5>>, <<-1, 2, 1, 2, 1>>),                               \* 19
           Op("Reshape", <<O(18), O(19)>>, x5, [special_zero |-> FALSE]),         \* 20 unsqueeze_1
           Op("Slice", <<O(16), O(10), O(14), O(15), O(13)>>, xh, NoAttr),        \* 21 slice_3
           Op("Reshape", <<O(21), O(19)>>, x5, [special_zero |-> FALSE]),         \* 22 unsqueeze_2
           Op("Concat", <<O(20), O(22)>>, <<B, H, 1, 2, 2>>, [axis |-> -1]),      \* 23 stack
           Const("i64", <<4>>, <<0, 0, 0, nd>>),                                  \* 24
           Op("Reshape", <<O(23), O(24)>>, xr, [special_zero |-> TRUE]),          \* 25 flatten
           Op("Multiply", <<O(16), O(8)>>, xr, nb),                               \* 26 multiply
           Op("Multiply", <<O(25), O(9)>>, xr, nb),                               \* 27 multiply_1
           Op("Add", <<O(26), O(27)>>, xr, nb),                                   \* 28 add
           Const("i64", <<1>>, <<from>>),                                         \* 29
           Op("Slice", <<O(5), O(29), O(14), O(12), O(13)>>, <<B, H, 1, 8 - from>>, NoAttr), \* 30 slice_5
           Op("Concat", <<O(28), O(30)>>, xs, [axis |-> -1]),                     \* 31 result
           Result(O(31)) >>                                                       \* 32

ChatGLMHFScenarios ==
    Near([kind : {"chatglmhf"}, hc : {2, -3}, bad : {"none", "ndims"}, idx : {"even", "odd"},
          s2d : BOOLEAN],
         [hc |-> 2, bad |-> "none", idx |-> "even", s2d |-> TRUE], {"hc", "bad", "idx", "s2d"}, 1)

\* Qwen: qkv[B,L,3*H*S] split into query, key and value; the one picked by
\* p.id viewed as [B,L,H,S] and rotated by halves with the cos/sin tables
\* sliced from the negated past length on
QwenGraph(p) ==
    LET B == -1
        big == p.unpack = "reshape"
        L == IF big THEN 1 ELSE -2
        H == IF big THEN 32 ELSE p.hc
        S == IF big THEN 128 ELSE 4
        half == S \div 2
        hs == IF big THEN 4096 ELSE p.hs
        nb == [auto_broadcast |-> "numpy"]
        xs == <<B, L, H, S>>
        x5 == <<B, L, H, 2, half>>
        x51 == <<B, L, H, 1, half>>
        x4 == <<B, L, H, half>>
        ts == <<1, -6, 1, S>>
        q == <<B, L, IF big THEN 4096 ELSE 8>>
        width == IF big THEN 12288 ELSE 24
        unpack == IF big THEN "Reshape" ELSE "Squeeze"
        how == IF big THEN O(35) ELSE O(26)
        flag == IF big THEN [special_zero |-> FALSE] ELSE NoAttr
    IN  << Param("f32", <<B, L, width>>),                                         \* 1 qkv_proj
           Param("f32", <<1, 64, 1, S>>),                                         \* 2 rotary_emb_cos
           Param("f32", <<1, 64, 1, S>>),                                         \* 3 rotary_emb_sin
           Const("i64", <<>>, <<2>>),                                             \* 4
           Const(p.et, <<3>>, <<hs, hs, width - 2 * hs>>),                        \* 5 head_cnt*head_size
           OpN("VariadicSplit", <<O(1), O(4), O(5)>>, <<q, q, q>>, NoAttr),       \* 6
           Const("i64", <<4>>, <<0, 0, IF big THEN 32 ELSE 2, S>>),               \* 7
           Op("Reshape", <<<<6, p.id>>, O(7)>>, xs, [special_zero |-> TRUE]),     \* 8 view_Reshape
           Const("i64", <<1>>, <<0>>),                                            \* 9
           Const("i64", <<1>>, <<S>>),                                            \* 10 head_size
           Const("i64", <<1>>, <<1>>),                                            \* 11
           Const("i64", <<1>>, <<3>>),                                            \* 12
           Op("Slice", <<O(8), O(9), O(10), O(11), O(12)>>, xs, NoAttr),          \* 13 slice_Slice_543
           [Op("ShapeOf", <<O(8)>>, <<4>>, NoAttr) EXCEPT !.et = "i64"],          \* 14
           Const("i64", <<>>, <<-1>>),                                            \* 15
           [Op("Multiply", <<O(14), O(15)>>, <<4>>, nb) EXCEPT !.et = "i64"],     \* 16
           Const("i64", <<>>, <<1>>),                                             \* 17
           Const("i64", <<>>, <<0>>),                                             \* 18
           [Op("Gather", <<O(16), O(17), O(18)>>, <<1>>, [batch_dims |-> 0])
               EXCEPT !.et = "i64"],                                              \* 19 -kv_len
           Const("i64", <<1>>, <<IntMax>>),                                       \* 20
           Op("Slice", <<O(2), O(19), O(20), O(11), O(11)>>, ts, NoAttr),         \* 21 cos_tab
           Op("Slice", <<O(3), O(19), O(20), O(11), O(11)>>, ts, NoAttr),         \* 22 sin_tab
           Op("Multiply", <<O(13), O(21)>>, xs, nb),                              \* 23 mul_Multiply_552
           Const("i64", <<5>>, <<0, 0, 0, 2, half>>),                             \* 24
           Op("Reshape", <<O(13), O(24)>>, x5, [special_zero |-> TRUE]),          \* 25
           Const("i64", <<>>, <<-2>>),                                            \* 26
           OpN("Split", <<O(25), O(26)>>, <<x51, x51>>, [num_splits |-> 2]),      \* 27
           Op("Multiply", <<<<27, 1>>, O(15)>>, x51, nb),                         \* 28
           Op(unpack, <<O(28), how>>, x4, flag),                                  \* 29
           Op(unpack, <<<<27, 0>>, how>>, x4, flag),                              \* 30
           Op("Concat", <<O(29), O(30)>>, xs, [axis |-> -1]),                     \* 31 cat_Concat_593
           Op("Multiply", <<O(31), O(22)>>, xs, nb),                              \* 32 mul_Multiply_594
           Op("Add", <<O(23), O(32)>>, xs, nb),                                   \* 33 result
           Result(O(33)) >>                                                       \* 34
        \o (IF big THEN << Const("i64", <<4>>, <<-1, 1, 32, 64>>) >> ELSE <<>>)   \* 35

QwenScenarios ==
    Near([kind : {"qwen"}, id : {0, 1}, hc : {2, -3}, hs : {8, 6}, et : {"i64", "f32"},
          unpack : {"squeeze"}, s2d : {FALSE}],
         [id |-> 0, hc |-> 2, hs |-> 8, et |-> "i64"], {"id", "hc", "hs", "et"}, 1)
    \cup {[kind |-> "qwen", id |-> 0, hc |-> 32, hs |-> 4096, et |-> "i64", unpack |-> "reshape",
           s2d |-> FALSE]}

\* GPT-NeoX with its head and tail: qkv[B,L,H,24] sliced to one projection,
\* transposed to [B,H,L,8], the first nd of 8 rotated by halves with cos/sin
\* tables gathered at the position ids, the rest passed through
AmendGraph(p) ==
    LET B == -1
        L == -2
        H == 2
        nd == IF p.io = "rotary" THEN 6 ELSE 4
        from == IF p.io = "slice_bad" THEN 6 ELSE nd
        nb == [auto_broadcast |-> "numpy"]
        split == p.io \in {"split", "rotary"}
        xs == <<B, H, L, 8>>
        xr == <<B, H, L, nd>>
        tab == <<B, 1, L, nd>>
        x == IF split THEN <<22, 0>> ELSE O(22)
        y == IF split THEN <<22, 1>> ELSE O(25)
        \* the table gathered per element at rank-4 positions (GPT-NeoX) or
        \* per row at rank-2 position ids (llama)
        cos4 == p.tab \in {"neox", "mixed"}
        sin4 == p.tab = "neox"
        cos == CASE p.tab = "llama" -> O(10) [] cos4 -> O(9) [] OTHER -> O(33)
        sin == CASE p.tab \in {"llama", "mixed"} -> O(13) [] sin4 -> O(12) [] OTHER -> O(34)
        Table(c, v) == IF c THEN Const("f32", <<1, 1, 16, nd>>, <<v>>)
                       ELSE Const("f32", <<16, nd>>, <<v>>)
        Sliced(c, t) == Op("Slice", <<O(t), O(6), O(4), O(7), O(6)>>,
                           IF c THEN <<-7, 1, 16, nd>> ELSE <<-7, nd>>, NoAttr)
        Gathered(c, t, at) ==
            IF c THEN Op("GatherElements", <<O(t), O(at)>>, tab, [axis |-> 2])
            ELSE Op("Gather", <<O(t), O(5), O(6)>>, <<B, L, nd>>, [batch_dims |-> 0])
        \* the input of the chain in front of the fused node
        qkv == CASE p.pre = "slice" -> <<B, L, H, 24>>
                 [] p.pre = "trans" -> <<B, L, H, 8>>
                 [] p.pre = "trans2" -> <<B, H, L, 8>>
                 [] p.pre = "slice2" -> <<B, H, L, 24>>
        pre == CASE p.pre = "slice" -> <<17, 1>>
                 [] p.pre = "trans" -> <<1, 1>>
                 [] p.pre = "trans2" -> <<38, 1>>
                 [] p.pre = "slice2" -> <<17, 39>>
    IN  << Param("f32", qkv),                                                     \* 1 qkv
           Table(cos4, 0),                                                        \* 2 cos_const
           Table(sin4, 1),                                                        \* 3 sin_const
           Param("i32", <<1>>),                                                   \* 4 seq_len, batch
           IF sin4 THEN Param("i32", tab) ELSE Param("i32", <<B, L>>),            \* 5 position ids
           Const("i64", <<1>>, <<0>>),                                            \* 6
           Const("i64", <<1>>, <<1>>),                                            \* 7
           Sliced(cos4, 2),                                                       \* 8
           Gathered(cos4, 8, IF sin4 THEN 5 ELSE 10),                             \* 9
           IF cos4 THEN Param("i32", tab)
           ELSE Op("Unsqueeze", <<O(9), O(7)>>, tab, NoAttr),                     \* 10 cos
           Sliced(sin4, 3),                                                       \* 11
           Gathered(sin4, 11, 5),                                                 \* 12
           IF sin4 THEN Param("i32", tab)
           ELSE Op("Unsqueeze", <<O(12), O(7)>>, tab, NoAttr),                    \* 13 sin
           Const("i64", <<1>>, <<8>>),                                            \* 14 slice_start
           Const("i64", <<1>>, <<16>>),                                           \* 15 slice_stop
           Const("i64", <<1>>, <<3>>),                                            \* 16 axis
           Op("Slice", <<O(pre[2]), O(14), O(15), O(7), O(16)>>, <<B, L, H, 8>>, NoAttr), \* 17
           Const("i64", <<4>>, <<0, 2, 1, 3>>),                                   \* 18
           Op("Transpose", <<O(pre[1]), O(18)>>, xs, NoAttr),                     \* 19
           IF split THEN Const("i64", <<2>>, <<nd, 8 - nd>>)
           ELSE Const("i64", <<1>>, <<nd>>),                                      \* 20 ndims
           Const("i64", <<>>, <<3>>),                                             \* 21
           IF split THEN OpN("VariadicSplit", <<O(19), O(21), O(20)>>,
                             <<xr, <<B, H, L, 8 - nd>>>>, NoAttr)
           ELSE Op("Slice", <<O(19), O(6), O(20), O(7), O(16)>>, xr, NoAttr),     \* 22 x
           Const("i64", <<1>>, <<from>>),                                         \* 23
           Const("i64", <<1>>, <<IntMax>>),                                       \* 24
           Op("Slice", <<O(19), O(23), O(24), O(7), O(16)>>, <<B, H, L, 8 - from>>, NoAttr), \* 25 y
           Const("i64", <<2>>, <<2, nd - 2>>),                                    \* 26 half_ndims
           OpN("VariadicSplit", <<x, O(21), O(26)>>,
               <<<<B, H, L, 2>>, <<B, H, L, nd - 2>>>>, NoAttr),                  \* 27
           Const("f32", <<>>, <<-1>>),                                            \* 28
           Op("Multiply", <<<<27, 1>>, O(28)>>, <<B, H, L, nd - 2>>, nb),         \* 29 x2neg
           Op("Concat", <<O(29), <<27, 0>>>>, xr, [axis |-> -1]),                 \* 30 rotate_half
           Op("Multiply", <<x, cos>>, xr, nb),                                    \* 31 mul_cos
           Op("Multiply", <<O(30), sin>>, xr, nb),                                \* 32 mul_sin
           Param("f32", tab),                                                     \* 33 cos, prepared
           Param("f32", tab),                                                     \* 34 sin, prepared
           Op("Add", <<O(31), O(32)>>, xr, nb),                                   \* 35
           Op("Concat", <<O(35), y>>, <<B, H, L, nd + 8 - from>>, [axis |-> -1]), \* 36
           Result(O(36)) >>                                                       \* 37
        \o (CASE p.pre = "trans2" ->
                   << Op("Transpose", <<O(1), O(18)>>, <<B, L, H, 8>>, NoAttr) >> \* 38
               [] p.pre = "slice2" ->
                   << Op("Slice", <<O(1), O(6), O(15), O(7), O(16)>>,
                         <<B, H, L, 16>>, NoAttr),                                \* 38
                      Op("Transpose", <<O(38), O(18)>>, <<B, L, H, 16>>, NoAttr) >> \* 39
               [] OTHER -> <<>>)

AmendScenarios ==
    Near([kind : {"amend"}, io : {"split", "slice", "slice_bad", "rotary"},
          pre : {"slice", "trans", "trans2", "slice2"}, tab : {"llama", "neox", "mixed", "none"},
          s2d : {FALSE}],
         [io |-> "split", pre |-> "slice", tab |-> "llama"], {"io", "pre", "tab"}, 1)

FluxScenarios ==
    Near([kind : {"flux"}, B : {2, -1}, H : {24, -3}, S : {128, -4},
          neg : {"plain", "squeeze_first", "squeeze_after"},
          swap : BOOLEAN, swapadd : BOOLEAN, x3perm : BOOLEAN, trans : {FALSE}, s2d : {FALSE}],
         [B |-> 2, H |-> 24, S |-> 128, neg |-> "plain", swap |-> FALSE, swapadd |-> FALSE,
          x3perm |-> FALSE],
         {"B", "H", "S", "neg", "swap", "swapadd", "x3perm"}, 2)
    \cup {[kind |-> "flux", B |-> 2, H |-> 24, S |-> 128, neg |-> "plain", swap |-> FALSE,
           swapadd |-> FALSE, x3perm |-> FALSE, trans |-> TRUE, s2d |-> FALSE]}

Scenarios ==
    FluxScenarios \cup NeoxScenarios \cup GPTJScenarios \cup ChatGLMHFScenarios \cup QwenScenarios
    \cup AmendScenarios \cup ShareScenarios \cup ChatGLMScenarios

GraphOf(p) ==
    CASE p.kind = "flux" -> FluxGraph(p)
      [] p.kind = "neox" -> NeoxGraph(p)
      [] p.kind = "gptj" -> GPTJGraph(p)
      [] p.kind = "chatglmhf" -> ChatGLMHFGraph(p)
      [] p.kind = "qwen" -> QwenGraph(p)
      [] p.kind = "amend" -> AmendGraph(p)
      [] p.kind = "share" -> ShareGraph(p)
      [] p.kind = "chatglm" -> ChatGLMGraph(p)

----------------------------------------------------------------------------
(* The pipeline: RoPEFusion::run_on_model registers the rules; the manager  *)
(* runs them one after the other, each over every node of the model.        *)

Rule(name, split_output_id, s2d) ==
    [name |-> name, split_output_id |-> split_output_id, s2d |-> s2d]

\* the registration order of run_on_model
\* the order in which every rule that makes a fused node comes before the
\* rules that amend one
RegisteredAmendLast(s2d) ==
    << Rule("RoPEFusionFlux", 0, FALSE),
       Rule("RoPEFusionGPTNEOX", 0, FALSE),
       Rule("RoPEFusionGPTJ", 0, FALSE),
       Rule("RoPEFusionChatGLM", 0, FALSE),
       Rule("RoPEFusionChatGLM", 1, FALSE) >>
    \o (IF s2d THEN << Rule("RoPEFusionChatGLM", 0, TRUE),
                       Rule("RoPEFusionChatGLM", 1, TRUE),
                       Rule("RoPEFusionChatGLMHF", 0, FALSE) >>
        ELSE <<>>)
    \o << Rule("RoPEFusionQwen", 0, FALSE),
          Rule("RoPEFusionQwen", 1, FALSE),
          Rule("RoPEFusionCosSinPreprocess", 0, FALSE),
          Rule("RoPEFusionIOSlicing", 0, FALSE),
          Rule("RoPEFusionPreprocess", 0, FALSE),
          Rule("RoPEShareCosSin", 0, FALSE) >>

Registered(s2d) ==
    << Rule("RoPEFusionFlux", 0, FALSE),
       Rule("RoPEFusionGPTNEOX", 0, FALSE),
       Rule("RoPEFusionGPTJ", 0, FALSE),
       \* optional heads & tails are fused in separate matcher pass,
       \* after RoPENode has been created.
       Rule("RoPEFusionCosSinPreprocess", 0, FALSE),
       Rule("RoPEFusionIOSlicing", 0, FALSE),
       Rule("RoPEFusionPreprocess", 0, FALSE),
       Rule("RoPEFusionChatGLM", 0, FALSE),
       Rule("RoPEFusionChatGLM", 1, FALSE) >>
    \o (IF s2d THEN << Rule("RoPEFusionChatGLM", 0, TRUE),
                       Rule("RoPEFusionChatGLM", 1, TRUE),
                       Rule("RoPEFusionChatGLMHF", 0, FALSE) >>
        ELSE <<>>)
    \o << Rule("RoPEFusionQwen", 0, FALSE),
          Rule("RoPEFusionQwen", 1, FALSE),
          Rule("RoPEShareCosSin", 0, FALSE) >>

ChatGLMPatterns ==
    (<<0, FALSE>> :> ChatGLMPattern(0, FALSE)) @@ (<<1, FALSE>> :> ChatGLMPattern(1, FALSE)) @@
    (<<0, TRUE>> :> ChatGLMPattern(0, TRUE)) @@ (<<1, TRUE>> :> ChatGLMPattern(1, TRUE))

QwenPatterns == <<QwenPattern(0), QwenPattern(1)>>

\* the template a registered rule was constructed with
PatternOf(rule) ==
    CASE rule.name = "RoPEFusionFlux" -> FluxPattern
      [] rule.name = "RoPEFusionGPTNEOX" -> NeoxPattern
      [] rule.name = "RoPEFusionGPTJ" -> GPTJPattern
      [] rule.name = "RoPEFusionCosSinPreprocess" -> CosSinPreprocessPattern
      [] rule.name = "RoPEFusionIOSlicing" -> IOSlicingPattern
      [] rule.name = "RoPEFusionPreprocess" -> PreprocessPattern
      [] rule.name = "RoPEFusionChatGLM" -> ChatGLMPatterns[<<rule.split_output_id, rule.s2d>>]
      [] rule.name = "RoPEFusionChatGLMHF" -> ChatGLMHFPattern
      [] rule.name = "RoPEFusionQwen" -> QwenPatterns[rule.split_output_id + 1]
      [] rule.name = "RoPEShareCosSin" -> SharePattern

\* the root of every template is the pattern node "result", "rope" for
\* RoPEFusionCosSinPreprocess
RootOf(rule) == IF rule.name = "RoPEFusionCosSinPreprocess" THEN "rope" ELSE "result"

WithPattern(rule) == [name |-> rule.name, split_output_id |-> rule.split_output_id,
                      s2d |-> rule.s2d, pat |-> PatternOf(rule), root |-> RootOf(rule)]

\* the node types a match of the template can be rooted at
RECURSIVE RootOps(_, _)
RootOps(P, name) ==
    IF P[name].k = "or" THEN UNION {RootOps(P, P[name].ins[i][1]) : i \in DOMAIN P[name].ins}
    ELSE P[name].ops

----------------------------------------------------------------------------
(* Type discrimination (type.hpp).  A class is a number; a shared pointer   *)
(* is 0 (null) or the number of the dynamic class of the object it holds.  *)

MaxClasses == 3

ClassIds == 1..MaxClasses

Pointers == 0..MaxClasses

\* the C++ base classes of class c (single public inheritance)
RECURSIVE BasesOf(_, _)
BasesOf(base, c) == IF base[c] = 0 THEN {} ELSE {base[c]} \cup BasesOf(base, base[c])

\* DiscreteTypeInfo::parent of every class: nullptr or the tag of a base class
ParentTags(base) ==
    {p \in [ClassIds -> Pointers] : \A c \in ClassIds : p[c] \in {0} \cup BasesOf(base, c)}

\* whether a class derives from ov::frontend::ConversionExtensionBase
Extensions(base) ==
    {e \in [ClassIds -> BOOLEAN] : \A c \in ClassIds : base[c] # 0 => e[c] = e[base[c]]}

\* the class declarations a program can have: each class with its C++ base
\* (declared before it), the parent of its type tag and its extension flag
Hierarchies ==
    UNION {{[c \in ClassIds |-> [base |-> b[c], parent |-> p[c], ext |-> e[c]]] :
                p \in ParentTags(b), e \in Extensions(b)} :
           b \in {f \in [ClassIds -> Pointers] : \A c \in ClassIds : f[c] < c}}

\* DiscreteTypeInfo::is_castable: this tag is the target or its parent is castable
RECURSIVE is_castable(_, _, _)
is_castable(cl, tag, target_type) ==
    \/ tag = target_type
    \/ cl[tag].parent # 0 /\ is_castable(cl, cl[tag].parent, target_type)

use_ov_dynamic_cast(cl, To) == cl[To].ext

is_type(cl, To, value) == value # 0 /\ is_castable(cl, value, To)

\* std::static_pointer_cast: the same object behind a pointer of the other type
static_pointer_cast(To, value) == value

\* std::dynamic_pointer_cast: the object if its dynamic class is the target or
\* derives from To, else null
dynamic_pointer_cast(cl, To, value) ==
    IF value # 0 /\ (value = To \/ To \in BasesOf([c \in ClassIds |-> cl[c].base], value))
    THEN value ELSE 0

AsTypePtrCall(cl, To, value) ==
    IF is_type(cl, To, value) THEN static_pointer_cast(To, value) ELSE 0

as_type_ptr(cl, To, value) ==
    IF use_ov_dynamic_cast(cl, To) THEN AsTypePtrCall(cl, To, value)
    ELSE dynamic_pointer_cast(cl, To, value)

NoCast == [fn |-> "", value |-> 0, Type |-> 0, is |-> FALSE, ptr |-> 0]

----------------------------------------------------------------------------

MaxRuns == 2

\* the candidate roots of a rule: the nodes of the model that have the type
\* of the template's root, in the order of their creation
Candidates(g, k, rule) ==
    SortedSeq({n \in Live(g, k) : g[n].op \in RootOps(PatternOf(rule), RootOf(rule))})

NoCall == [rule |-> "", root |-> 0, matched |-> FALSE, pm |-> EmptyFn, sym |-> EmptyFn]

Init ==
    /\ scen \in Scenarios
    /\ nodes = GraphOf(scen)
    /\ support_2d_rope = scen.s2d
    /\ run = 0 /\ model = 0 /\ done = {} /\ tick = FALSE /\ pass = 0 /\ todo = <<>>
    /\ last = NoCall /\ ret = "none"
    /\ m_inv_freq = 0 /\ m_shared_inputs = <<0, 0>> /\ m_shared_cos0 = 0 /\ m_shared_sin0 = 0
    /\ classes = <<>> /\ cast = NoCast

Models(g) == {g[n].mdl : n \in DOMAIN g}

\* a run that reuses the rule objects of the run before
RunOnModelReusingRules ==
    /\ pass = 0 /\ run < MaxRuns
    /\ \E k \in Models(nodes) :
          /\ model' = k
          /\ todo' = Candidates(nodes, k, Registered(support_2d_rope)[1])
    /\ run' = run + 1
    /\ pass' = 1
    /\ tick' = ~tick
    /\ last' = NoCall /\ ret' = "none"
    /\ UNCHANGED <<nodes, scen, support_2d_rope, done, share, typesys>>

\* RoPEFusion::run_on_model: a new manager and new rule objects for every call
RunOnModel ==
    /\ pass = 0 /\ run < MaxRuns
    /\ \E k \in Models(nodes) :
          /\ model' = k
          /\ todo' = Candidates(nodes, k, Registered(support_2d_rope)[1])
    /\ run' = run + 1
    /\ pass' = 1
    /\ tick' = ~tick
    /\ last' = NoCall /\ ret' = "none"
    /\ m_inv_freq' = 0 /\ m_shared_inputs' = <<0, 0>> /\ m_shared_cos0' = 0 /\ m_shared_sin0' = 0
    /\ UNCHANGED <<nodes, scen, support_2d_rope, done, typesys>>

\* the current rule has seen every candidate: the next registered rule starts
\* (an exception out of a callback ends the call of run_on_model)
NextPass ==
    /\ pass > 0 /\ todo = <<>> /\ ret # "throw"
    /\ IF pass < Len(Registered(support_2d_rope))
       THEN /\ pass' = pass + 1
            /\ todo' = Candidates(nodes, model, Registered(support_2d_rope)[pass + 1])
            /\ done' = done
       ELSE pass' = 0 /\ todo' = <<>> /\ done' = done \cup {model}
    /\ last' = NoCall /\ ret' = "none"
    /\ tick' = ~tick
    /\ UNCHANGED <<nodes, scen, support_2d_rope, run, model, share, typesys>>

Callback(rule, g, m) ==
    CASE rule.name = "RoPEFusionFlux" -> FluxCallback(g, m)
      [] rule.name = "RoPEFusionGPTNEOX" -> NeoxCallback(g, m)
      [] rule.name = "RoPEFusionGPTJ" -> GPTJCallback(g, m)
      [] rule.name = "RoPEFusionCosSinPreprocess" -> CosSinPreprocessCallback(g, m)
      [] rule.name = "RoPEFusionIOSlicing" -> IOSlicingCallback(g, m)
      [] rule.name = "RoPEFusionPreprocess" -> PreprocessCallback(g, m)
      [] rule.name = "RoPEFusionChatGLM" -> ChatGLMCallback(g, m, rule)
      [] rule.name = "RoPEFusionChatGLMHF" -> ChatGLMHFCallback(g, m)
      [] rule.name = "RoPEFusionQwen" -> QwenCallback(g, m, rule)
      [] rule.name = "RoPEShareCosSin" -> ShareCallback(g, m)

\* what the matcher hands to the callback
Matched(rule, root, st) ==
    [rule |-> rule.name, root |-> root, matched |-> st.ok, pm |-> st.pm, sym |-> st.sym]

\* the callback runs on a match only
Outcome(rule, g, m) == IF m.matched THEN Callback(rule, g, m) ELSE Returned("none", g, <<>>)

\* the effect of one offer: the graph the callback left, the nodes it
\* registered appended to the traversal, the state of the sharing rule
Applied(m, r) ==
    /\ last' = m
    /\ ret' = r.ret
    /\ nodes' = r.nodes
    /\ todo' = Tail(todo) \o r.reg
    /\ m_inv_freq' = r.share.inv_freq
    /\ m_shared_inputs' = r.share.inputs
    /\ m_shared_cos0' = r.share.cos0
    /\ m_shared_sin0' = r.share.sin0

MatcherPass(rule, m) == \E r \in {Outcome(rule, nodes, m)} : Applied(m, r)

OfferTo(rule, root, oob) ==
    \E m \in {Matched(rule, root, IF root \in Live(nodes, model)
                                  THEN Match(nodes, rule, root, [oob |-> oob])
                                  ELSE Fail(NoMatch))} :
        MatcherPass(rule, m)

\* the traversal of the rule called name is under way
Running(name) == pass > 0 /\ Registered(support_2d_rope)[pass].name = name

\* one candidate root offered to the rule now running: match, then callback
Offer(oob) ==
    /\ todo # <<>> /\ ret # "throw"
    /\ OfferTo(WithPattern(Registered(support_2d_rope)[pass]), Head(todo), oob)
    /\ tick' = ~tick
    /\ UNCHANGED <<scen, support_2d_rope, run, model, done, pass, typesys>>

RoPEFusionFlux ==
    /\ Running("RoPEFusionFlux")
    /\ Offer(0)

RoPEFusionGPTNEOX ==
    /\ Running("RoPEFusionGPTNEOX")
    /\ Offer(0)

\* const_idx_predicate reads one element past an odd-sized vector
OutOfBounds == {0, 1}

RoPEFusionGPTJ ==
    /\ Running("RoPEFusionGPTJ")
    /\ \E oob \in OutOfBounds : Offer(oob)

RoPEFusionCosSinPreprocess ==
    /\ Running("RoPEFusionCosSinPreprocess")
    /\ Offer(0)

RoPEFusionIOSlicing ==
    /\ Running("RoPEFusionIOSlicing")
    /\ Offer(0)

RoPEFusionPreprocess ==
    /\ Running("RoPEFusionPreprocess")
    /\ Offer(0)

RoPEFusionChatGLM ==
    /\ Running("RoPEFusionChatGLM")
    /\ Offer(0)

RoPEFusionChatGLMHF ==
    /\ Running("RoPEFusionChatGLMHF")
    /\ \E oob \in OutOfBounds : Offer(oob)

RoPEFusionQwen ==
    /\ Running("RoPEFusionQwen")
    /\ Offer(0)

RoPEShareCosSin ==
    /\ Running("RoPEShareCosSin")
    /\ Offer(0)

Next ==
    \/ RunOnModel
    \/ NextPass
    \/ RoPEFusionFlux
    \/ RoPEFusionGPTNEOX
    \/ RoPEFusionGPTJ
    \/ RoPEFusionCosSinPreprocess
    \/ RoPEFusionIOSlicing
    \/ RoPEFusionPreprocess
    \/ RoPEFusionChatGLM
    \/ RoPEFusionChatGLMHF
    \/ RoPEFusionQwen
    \/ RoPEShareCosSin

Spec == Init /\ [][Next]_vars

----------------------------------------------------------------------------
(* The type queries on their own: any class declarations, any pointer. *)

TypeInit ==
    /\ classes \in Hierarchies /\ cast = NoCast
    /\ nodes = <<>> /\ scen = [kind |-> "none"] /\ support_2d_rope = FALSE
    /\ run = 0 /\ model = 0 /\ done = {} /\ tick = FALSE /\ pass = 0 /\ todo = <<>>
    /\ last = NoCall /\ ret = "none"
    /\ m_inv_freq = 0 /\ m_shared_inputs = <<0, 0>> /\ m_shared_cos0 = 0 /\ m_shared_sin0 = 0

IsType ==
    /\ \E To \in ClassIds, value \in Pointers :
          cast' = [fn |-> "is_type", value |-> value, Type |-> To,
                   is |-> is_type(classes, To, value), ptr |-> 0]
    /\ UNCHANGED <<classes, fusion>>

AsTypePtr ==
    /\ \E To \in ClassIds, value \in Pointers :
          cast' = [fn |-> "AsTypePtr::call", value |-> value, Type |-> To,
                   is |-> FALSE, ptr |-> AsTypePtrCall(classes, To, value)]
    /\ UNCHANGED <<classes, fusion>>

AsTypePtrOf ==
    /\ \E To \in ClassIds, value \in Pointers :
          cast' = [fn |-> "as_type_ptr", value |-> value, Type |-> To,
                   is |-> FALSE, ptr |-> as_type_ptr(classes, To, value)]
    /\ UNCHANGED <<classes, fusion>>

TypeNext == IsType \/ AsTypePtr \/ AsTypePtrOf

TypeSpec == TypeInit /\ [][TypeNext]_vars

Fused(g) == {n \in DOMAIN g : g[n].op = "RoPE"}

----------------------------------------------------------------------------
(* Properties.  A step of a rule leaves the candidate it was offered in     *)
(* last', the callback's return value in ret'; nodes is the graph before    *)
(* the step and nodes' the graph after it.                                  *)

\* the rule that is traversing the model, with its template
Current == WithPattern(Registered(support_2d_rope)[pass])

\* the graph a fusion of root into a new node made of g leaves: one more
\* node, which every consumer of root reads instead of root
FusedInto(g, h, root, ins, cfg) ==
    /\ Len(h) = Len(g) + 1
    /\ h[Len(h)].op = "RoPE" /\ h[Len(h)].ins = ins /\ h[Len(h)].cfg = cfg
    /\ Consumers(h, root) = {}
    /\ Consumers(h, Len(h)) = Consumers(g, root)
    /\ Fused(h) = Fused(g) \cup {Len(h)}

\* C1: RoPEFusionFlux on x[B,H,L,S] with static B, H, L, S, written as
\* x * t_cos + x3 * t_sin with x3 the reshaped concat(-x1[1], x1[0]): the root
\* is matched and replaced by exactly one fused node reading (x, t_cos, t_sin)
\* with head_cnt = H, head_size = S, rotary_ndims = S, is_interleaved = true,
\* output_trans0213 = false; and whatever graph the rule matches with static H
\* and S is fused with the H and S of the x it bound.
FluxFusesStaticShape ==
    [][/\ (/\ last'.rule = "RoPEFusionFlux" /\ scen.kind = "flux" /\ last'.root = 17
           /\ scen.B >= 0 /\ scen.H >= 0 /\ scen.S >= 0 /\ ~scen.swap /\ ~scen.x3perm)
          => /\ last'.matched /\ ret' = "true"
             /\ Fused(nodes) = {} /\ Fused(nodes') = {Len(nodes) + 1}
             /\ FusedInto(nodes, nodes', 17, <<O(1), O(2), O(3)>>,
                          [Config EXCEPT !.head_cnt = scen.H, !.head_size = scen.S,
                                         !.rotary_ndims = scen.S, !.is_interleaved = TRUE,
                                         !.output_trans0213 = FALSE])
       /\ (/\ last'.rule = "RoPEFusionFlux" /\ last'.matched
           /\ \A i \in {2, 4} : is_static(ShapeOf(nodes, last'.pm["x"])[i]))
          => /\ ret' = "true"
             /\ FusedInto(nodes, nodes', last'.root,
                          <<last'.pm["x"], last'.pm["t_cos"], last'.pm["t_sin"]>>,
                          [Config EXCEPT !.head_cnt = ShapeOf(nodes, last'.pm["x"])[2],
                                         !.head_size = ShapeOf(nodes, last'.pm["x"])[4],
                                         !.rotary_ndims = ShapeOf(nodes, last'.pm["x"])[4],
                                         !.is_interleaved = TRUE,
                                         !.output_trans0213 = FALSE])]_vars

\* C1 witness: H = 24, S = 128 fused into node 19, which the Result reads
FluxFusedH24S128 ==
    /\ scen.kind = "flux" /\ scen.B = 2 /\ scen.H = 24 /\ scen.S = 128
    /\ last.rule = "RoPEFusionFlux" /\ last.root = 17 /\ ret = "true"
    /\ Len(nodes) = 19 /\ nodes[19].op = "RoPE" /\ nodes[19].cfg.head_cnt = 24
    /\ nodes[19].cfg.head_size = 128 /\ nodes[19].cfg.rotary_ndims = 128
    /\ nodes[18].ins = <<O(19)>>

\* the symbols whose value the callback of the matched rule turns into the
\* head count, the head size or the rotary dimension count
RequiredDims(m) ==
    CASE m.rule = "RoPEFusionFlux" ->
            {DimV(m.sym["PRESERVED_DIMS"].g[2]), m.sym["head_size"]}
      [] m.rule = "RoPEFusionGPTNEOX" -> {Symbols(m, "half_ndims")}
      [] m.rule = "RoPEFusionGPTJ" -> {Symbols(m, "ndims"), Symbols(m, "ndims/2")}
      [] m.rule = "RoPEFusionChatGLMHF" ->
            {Symbols(m, "ndims"), Symbols(m, "head_cnt"), Symbols(m, "head_size"),
             Symbols(m, "ndims/2")}
      [] m.rule = "RoPEFusionQwen" ->
            {Symbols(m, "head_cnt"), Symbols(m, "head_size"), Symbols(m, "head_size/2"),
             Symbols(m, "head_cnt*head_size")}
      [] OTHER -> {}

\* C2: in RoPEFusionFlux, GPTNEOX, GPTJ, ChatGLMHF and Qwen, a match in which
\* a required dimension is not a statically known integer makes the callback
\* return false; no node is created and the graph stays as it was.
NonStaticDimRejected ==
    [][(last'.matched /\ \E s \in RequiredDims(last') : ~is_integer(s))
       => (ret' = "false" /\ nodes' = nodes)]_vars

\* C2 witness: a Flux match with a dynamic head count was rejected
FluxDynamicHeadsRejected ==
    /\ scen.kind = "flux" /\ scen.H < 0 /\ scen.S >= 0
    /\ last.rule = "RoPEFusionFlux" /\ last.matched /\ ret = "false"
    /\ nodes = GraphOf(scen)

\* C3: RoPEFusionGPTNEOX on add(mul(a, b), mul(rotate_half(x), sin)) with
\* {a, b} = {x, cos}: in either written order of the first multiply the root
\* is replaced by a node reading (x, cos, sin) with the same configuration,
\* rotary_ndims = 2 * half_ndims.
NeoxFusesEitherOrder ==
    [][(/\ last'.rule = "RoPEFusionGPTNEOX" /\ scen.kind = "neox" /\ last'.root = 17
        /\ ~scen.other /\ scen.et = "i64")
       => /\ last'.matched /\ ret' = "true"
          /\ FusedInto(nodes, nodes', 17, <<O(1), O(2), O(3)>>,
                       [Config EXCEPT !.rotary_ndims = 2 * scen.half])]_vars

\* C3 witness: the first multiply written mul(cos, x) was fused
NeoxFusedCosFirst ==
    /\ scen.kind = "neox" /\ scen.swap /\ ~scen.other
    /\ last.rule = "RoPEFusionGPTNEOX" /\ last.root = 17 /\ ret = "true"
    /\ nodes[19].ins = <<O(1), O(2), O(3)>> /\ nodes[19].cfg.rotary_ndims = 64

\* C4: RoPEFusionGPTNEOX with neither x_or_cos1 nor x_or_cos2 bound to the x
\* of the rotate-half branch: the callback returns false, no node is created,
\* the graph stays as it was.
NeoxRejectsWithoutX ==
    [][(/\ last'.rule = "RoPEFusionGPTNEOX" /\ last'.matched
        /\ last'.pm["x_or_cos1"] # last'.pm["x"] /\ last'.pm["x_or_cos2"] # last'.pm["x"])
       => (ret' = "false" /\ nodes' = nodes)]_vars

\* C4 witness: the first multiply read another tensor instead of x
NeoxOtherTensorRejected ==
    /\ scen.kind = "neox" /\ scen.other /\ scen.et = "i64"
    /\ last.rule = "RoPEFusionGPTNEOX" /\ last.matched /\ last.root = 17
    /\ last.pm["x"] = O(1) /\ O(1) \notin {last.pm["x_or_cos1"], last.pm["x_or_cos2"]}
    /\ ret = "false" /\ nodes = GraphOf(scen)

\* the value each occurrence of a symbol in the constants of the template
\* has in the graph node bound to it
ElemOccurrences(g, P, pm) ==
    {<<P[q[1]].items[q[2]].s, ElemV(g[pm[q[1]][1]].et, g[pm[q[1]][1]].val[q[2]])>> :
        q \in {r \in {c \in DOMAIN pm : P[c].k = "const"} \X (1..8) :
                 r[2] \in DOMAIN P[r[1]].items /\ P[r[1]].items[r[2]].t = "sym"}}

\* the value each occurrence of a symbol in a shape of the template (one
\* alternative, at most one group, placed first) has in the graph
DimOccurrences(g, P, pm) ==
    {<<P[q[1]].pred.shp[1][q[2]].s,
       LET items == P[q[1]].pred.shp[1]
           shape == ShapeOf(g, pm[q[1]])
           extra == Len(shape) - Len(items)
       IN  IF items[q[2]].t = "grp" THEN GrpV(SubSeq(shape, 1, 1 + extra))
           ELSE DimV(shape[IF GroupAt(items) # 0 THEN q[2] + extra ELSE q[2]])>> :
        q \in {r \in {c \in DOMAIN pm : Len(P[c].pred.shp) = 1} \X (1..8) :
                 /\ r[2] \in DOMAIN P[r[1]].pred.shp[1]
                 /\ P[r[1]].pred.shp[1][r[2]].t \in {"sym", "grp"}
                 /\ P[r[1]].pred.shp[1][r[2]].s # ""
                 /\ GroupAt(P[r[1]].pred.shp[1]) \in {0, 1}}}

SymbolOccurrences(g, P, pm) == ElemOccurrences(g, P, pm) \cup DimOccurrences(g, P, pm)

\* the symbols the validator does not compare
NotValidated(rule) == IF rule = "RoPEFusionChatGLM" THEN {"batch", "seq_len"} ELSE {}

\* two observations of a symbol of the validator that stand for different values
Conflict(obs, exempt) ==
    \E a, b \in obs : a[1] = b[1] /\ a[1] \notin exempt /\ a[3] * a[2] # b[3] * b[2]

\* C5: a graph that gives a symbol two different values at two of its
\* occurrences is not fused: a rule that resolves its symbols in the match
\* does not match it, and the callback of a rule that validates them after
\* the match returns false and leaves the graph as it was.  batch and seq_len
\* of RoPEFusionChatGLM are not compared: a graph that gives them different
\* values is fused.
SymbolsConsistent ==
    [][/\ last'.matched
          => /\ \A a, b \in SymbolOccurrences(nodes, Current.pat, last'.pm) :
                    a[1] = b[1] => a[2] = b[2]
             /\ Conflict(Observations(nodes, Current.pat, last'.pm), NotValidated(last'.rule))
                => (ret' = "false" /\ nodes' = nodes)
       /\ (/\ last'.rule = "RoPEFusionChatGLM" /\ Current.split_output_id = 0 /\ ~Current.s2d
           /\ scen.kind = "chatglm" /\ scen.layout = "1d" /\ scen.mixed /\ last'.root = 44)
          => /\ last'.matched /\ ret' = "true"
             /\ Conflict(Observations(nodes, Current.pat, last'.pm), {})]_vars

\* C5 witness: the slices of RoPEFusionIOSlicing gave ndims two values
IOSlicingConflictRejected ==
    /\ scen.kind = "amend" /\ scen.io = "slice_bad"
    /\ last.rule = "RoPEFusionIOSlicing" /\ last.matched /\ ret = "false"
    /\ Conflict(Observations(nodes, IOSlicingPattern, last.pm), {})
    /\ nodes[Len(nodes)].ins[1] # last.pm["data"]

\* C6: whenever a callback returns false, the graph is the graph it was
\* called on: no node replaced, no input rewired, no configuration changed.
FalseLeavesGraph ==
    [][(last'.matched /\ ret' = "false") => nodes' = nodes]_vars

\* C6 witness: RoPEFusionIOSlicing returned false on a slice width that is
\* not the rotary_ndims of the fused node
IOSlicingWidthRejected ==
    /\ scen.kind = "amend" /\ scen.io = "rotary"
    /\ last.rule = "RoPEFusionIOSlicing" /\ last.matched /\ ret = "false"
    /\ ~Conflict(Observations(nodes, IOSlicingPattern, last.pm), {})
    /\ nodes[last.root].op = "Concat" /\ Consumers(nodes, last.root) # {}

\* a step of RoPEShareCosSin that matched
ShareMatched == last'.rule = "RoPEShareCosSin" /\ last'.matched

\* the branch of the match: the Unsqueeze at the root reads a Sin or a Cos
SinBranch(g, root) == g[g[root].ins[1][1]].op = "Sin"

\* the seed of the branch of the match, before the step and after it
SeedBefore == IF SinBranch(nodes, last'.root) THEN m_shared_sin0 ELSE m_shared_cos0
SeedAfter == IF SinBranch(nodes, last'.root) THEN m_shared_sin0' ELSE m_shared_cos0'

\* the constant and the two inputs of the match are the first-seen ones
SameAsFirstSeen ==
    LET cur == nodes[last'.pm["const_inv_freq"][1]]
        first == nodes[m_inv_freq]
    IN  /\ cur.et = first.et /\ cur.shp = first.shp /\ cur.val = first.val
        /\ m_shared_inputs = <<last'.pm["inputs0"][1], last'.pm["inputs1"][1]>>

\* C7: a match of a branch that has a seed, with the first-seen constant
\* (element type, shape, bytes) and the first-seen two inputs, returns true
\* and every consumer of its root reads the seed of the same branch instead.
ShareRewiresToSeed ==
    [][(ShareMatched /\ m_inv_freq # 0 /\ SameAsFirstSeen /\ SeedBefore # 0)
       => /\ ret' = "true"
          /\ SinBranch(nodes, SeedBefore) = SinBranch(nodes, last'.root)
          /\ nodes' = ReplaceNode(nodes, last'.root, SeedBefore)
          /\ Consumers(nodes', last'.root) = {}
          /\ Consumers(nodes, last'.root) \subseteq Consumers(nodes', SeedBefore)]_vars

\* C7 witness: the sin of the second layer was replaced by the sin of the first
ShareSecondSinRewired ==
    /\ scen.kind = "share" /\ scen.c1 = "same" /\ scen.c2 = "same" /\ scen.in2 = "same"
    /\ last.rule = "RoPEShareCosSin" /\ last.root = 36 /\ ret = "true"
    /\ m_shared_sin0 = 20 /\ nodes[38].ins = <<O(20)>> /\ Consumers(nodes, 36) = {}

\* C8: the first accepted match of a branch records its root as the seed of
\* the branch and returns false, the graph untouched; a match is rewritten
\* only when its branch had a seed.
ShareFirstMatchSeeds ==
    [][/\ (ShareMatched /\ (m_inv_freq = 0 \/ SameAsFirstSeen) /\ SeedBefore = 0)
          => /\ ret' = "false" /\ nodes' = nodes
             /\ SeedAfter = last'.root
             /\ last'.root \in Live(nodes', model)
       /\ (last'.rule = "RoPEShareCosSin" /\ ret' = "true")
          => (SeedBefore # 0 /\ SeedAfter = SeedBefore)]_vars

\* C8 witness: the cos of the first layer is the seed, no sin seen yet
ShareFirstCosSeeded ==
    /\ scen.kind = "share"
    /\ last.rule = "RoPEShareCosSin" /\ last.root = 19 /\ last.matched /\ ret = "false"
    /\ m_inv_freq = 7 /\ m_shared_cos0 = 19 /\ m_shared_sin0 = 0
    /\ nodes = GraphOf(scen)

\* C9: a match whose constant differs from the first-seen one in element
\* type, shape or data, or whose inputs are not the first-seen nodes, returns
\* false: nothing is rewritten and no seed is recorded.
ShareMismatchRejected ==
    [][(ShareMatched /\ m_inv_freq # 0 /\ ~SameAsFirstSeen)
       => (ret' = "false" /\ nodes' = nodes /\ UNCHANGED share)]_vars

\* C9 witness: the second layer's constant differs in its second element
ShareOtherDataRejected ==
    /\ scen.kind = "share" /\ scen.c1 = "same" /\ scen.c2 = "val" /\ scen.in2 = "same"
    /\ last.rule = "RoPEShareCosSin" /\ last.root = 35 /\ last.matched /\ ret = "false"
    /\ m_inv_freq = 7 /\ m_shared_cos0 = 19 /\ nodes[37].ins = <<O(35)>>

\* C10: every run_on_model call starts with no first-seen constant, no shared
\* inputs and no seed; what the sharing rule holds and what it replaces a
\* root by are nodes of the model the call works on.
ShareStateScoped ==
    [][/\ run' = run + 1
          => (m_inv_freq' = 0 /\ m_shared_inputs' = <<0, 0>> /\ m_shared_cos0' = 0
              /\ m_shared_sin0' = 0)
       /\ last'.rule = "RoPEShareCosSin"
          => /\ \A n \in {m_inv_freq', m_shared_cos0', m_shared_sin0'} \ {0} :
                    n \in Live(nodes, model)
             /\ ret' = "true"
                => \A c \in Consumers(nodes, last'.root) : \A i \in DOMAIN nodes'[c].ins :
                       nodes'[c].ins[i][1] \in Live(nodes, model)]_vars

\* C10 witness: the second call, on the second model, seeded that model's cos
ShareSecondModelSeeded ==
    /\ scen.kind = "share" /\ scen.third = "model2" /\ run = 2 /\ model = 2
    /\ last.rule = "RoPEShareCosSin" /\ last.root = 51 /\ last.matched /\ ret = "false"
    /\ m_inv_freq = 39 /\ m_shared_cos0 = 51

\* the node that feeds input i of node n
Feeder(g, n, i) == g[n].ins[i][1]

\* the last element of the constant n
LastValue(g, n) == g[n].val[Len(g[n].val)]

\* C11: a firing of RoPEFusionPreprocess changes nothing but the node at its
\* root, and of that node only input 0 and the configuration; of the
\* configuration only slice_start, slice_stop and input_trans0213.
\* input_trans0213 becomes true; with the slice matched, slice_start and
\* slice_stop are the bounds of the slice and input 0 is the tensor sliced;
\* without it they keep their values and input 0 is the tensor transposed.
PreprocessKeepsConfig ==
    [][(last'.rule = "RoPEFusionPreprocess" /\ ret' = "true")
       => LET r == last'.root
              trans == Feeder(nodes, r, 1)
              slice == Feeder(nodes, trans, 1)
              sliced == "input_to_slice" \in DOMAIN last'.pm
          IN  /\ DOMAIN nodes' = DOMAIN nodes
              /\ \A n \in DOMAIN nodes : n # r => nodes'[n] = nodes[n]
              /\ nodes'[r] = [nodes[r] EXCEPT !.ins[1] = nodes'[r].ins[1], !.cfg = nodes'[r].cfg]
              /\ \A f \in DOMAIN Config \ {"slice_start", "slice_stop", "input_trans0213"} :
                     nodes'[r].cfg[f] = nodes[r].cfg[f]
              /\ nodes'[r].cfg.input_trans0213
              /\ nodes[trans].op = "Transpose"
              /\ IF sliced
                 THEN /\ nodes[slice].op \in {"Slice", "StridedSlice"}
                      /\ nodes'[r].ins[1] = nodes[slice].ins[1]
                      /\ nodes'[r].cfg.slice_start = LastValue(nodes, Feeder(nodes, slice, 2))
                      /\ nodes'[r].cfg.slice_stop = LastValue(nodes, Feeder(nodes, slice, 3))
                 ELSE /\ nodes'[r].ins[1] = nodes[trans].ins[1]
                      /\ nodes'[r].cfg.slice_start = nodes[r].cfg.slice_start
                      /\ nodes'[r].cfg.slice_stop = nodes[r].cfg.slice_stop]_vars

\* C11 witness: the slice 8..16 in front of the transpose went into the
\* node GPTNEOX made, its rotary_ndims still 4
PreprocessSliceAbsorbed ==
    /\ scen.kind = "amend" /\ scen.pre = "slice"
    /\ last.rule = "RoPEFusionPreprocess" /\ ret = "true" /\ last.root = 38
    /\ nodes[38].cfg.slice_start = 8 /\ nodes[38].cfg.slice_stop = 16
    /\ nodes[38].cfg.input_trans0213 /\ nodes[38].cfg.rotary_ndims = 4
    /\ nodes[38].ins[1] = O(1)

\* C12: a run on a model that a run has already returned for changes no
\* node of the graph.  (It does not hold where const_idx_predicate reads
\* past the end of an odd-sized index constant: what it reads in the first
\* run and in the second need not be the same.)
SecondRunChangesNothing == [][model' \in done' => nodes' = nodes]_vars

\* C12: the first run left the GPT-J graph with the one-element index
\* constant as it was, the second run fuses it
SecondRunFuses ==
    /\ scen.kind = "gptj" /\ scen.idx = "odd" /\ run = 2 /\ model \in done
    /\ last.rule = "RoPEFusionGPTJ" /\ ret = "true"
    /\ Fused(nodes) # {}

\* the rules that look for a fused node and amend it
AmendingRules == {"RoPEFusionCosSinPreprocess", "RoPEFusionIOSlicing", "RoPEFusionPreprocess"}

\* the rules that make a fused node
CreatingRules == {"RoPEFusionFlux", "RoPEFusionGPTNEOX", "RoPEFusionGPTJ", "RoPEFusionChatGLM",
                  "RoPEFusionChatGLMHF", "RoPEFusionQwen"}

\* the positions at which one of the rules named is registered
PositionsOf(names) ==
    {j \in DOMAIN Registered(support_2d_rope) : Registered(support_2d_rope)[j].name \in names}

\* C13 as stated: while a rule that amends a fused node traverses the model,
\* every rule that makes one is registered before it; RoPEShareCosSin is
\* registered last.
AmendAfterEveryCreator ==
    /\ pass \in PositionsOf(AmendingRules) => \A j \in PositionsOf(CreatingRules) : j < pass
    /\ PositionsOf({"RoPEShareCosSin"}) = {Len(Registered(support_2d_rope))}

\* C13 amended: while a rule that amends a fused node traverses the model,
\* RoPEFusionFlux, RoPEFusionGPTNEOX and RoPEFusionGPTJ are registered before
\* it and RoPEFusionChatGLM, RoPEFusionChatGLMHF and RoPEFusionQwen after it;
\* RoPEShareCosSin is registered last.
AmendBetweenCreators ==
    /\ pass \in PositionsOf(AmendingRules)
       => /\ \A j \in PositionsOf({"RoPEFusionFlux", "RoPEFusionGPTNEOX", "RoPEFusionGPTJ"}) :
                 j < pass
          /\ \A j \in PositionsOf({"RoPEFusionChatGLM", "RoPEFusionChatGLMHF", "RoPEFusionQwen"}) :
                 j > pass
    /\ PositionsOf({"RoPEShareCosSin"}) = {Len(Registered(support_2d_rope))}

\* C13 witness: RoPEFusionChatGLMHF makes its fused node after the last of
\* the amending rules has traversed the model
FusedAfterAmendingRules ==
    /\ Running("RoPEFusionChatGLMHF") /\ last.rule = "RoPEFusionChatGLMHF" /\ ret = "true"
    /\ \A j \in PositionsOf(AmendingRules) : j < pass
    /\ Fused(nodes) # {}

\* the values the occurrences of the symbol called name have in the graph
ValuesOf(occ, name) == {o[2] : o \in {q \in occ : q[1] = name}}

\* every occurrence of the symbol called part is an integer that, multiplied
\* by factor, is what every occurrence of the symbol called whole is
ExactPart(occ, part, factor, whole) ==
    \A a \in ValuesOf(occ, part), b \in ValuesOf(occ, whole) :
        is_integer(a) /\ is_integer(b) /\ a.v * factor = b.v

\* the derived symbols of the template of a rule stand in their relation to
\* the symbols they derive from, at the nodes the match bound
DerivedExact(rule, g, P, pm) ==
    CASE rule \in {"RoPEFusionGPTJ", "RoPEFusionChatGLMHF"} ->
            ExactPart(SymbolOccurrences(g, P, pm), "ndims/2", 2, "ndims")
      [] rule = "RoPEFusionQwen" ->
            /\ ExactPart(SymbolOccurrences(g, P, pm), "head_size/2", 2, "head_size")
            /\ \A c \in ValuesOf(SymbolOccurrences(g, P, pm), "head_cnt") :
                   is_integer(c)
                   /\ ExactPart(SymbolOccurrences(g, P, pm), "head_size", c.v, "head_cnt*head_size")
      [] rule = "RoPEFusionChatGLM" ->
            \A a, b \in Observations(g, P, pm) :
                (a[1] = "ndims" /\ b[1] = "ndims") => a[2] * a[3] = b[2] * b[3]
      [] OTHER -> TRUE

TransposedBy(g, root) ==
    LET T == {c \in Consumers(g, root) :
                 /\ g[c].op = "Transpose"
                 /\ g[Feeder(g, c, 2)].op = "Constant"
                 /\ g[Feeder(g, c, 2)].val = <<0, 2, 1, 3>>}
    IN  IF Cardinality(TargetInputs(g, root)) = 1 /\ T # {} THEN CHOOSE c \in T : TRUE ELSE 0

\* the fused node h holds beyond g has output_trans0213 as given and has
\* taken the place of the node called old
TookPlaceOf(g, h, old, output_trans0213) ==
    /\ Len(h) = Len(g) + 1 /\ h[Len(h)].op = "RoPE"
    /\ h[Len(h)].cfg.output_trans0213 = output_trans0213
    /\ Consumers(h, old) = {}
    /\ Consumers(h, Len(h)) = Consumers(g, old)

\* C15 as stated: a rule that makes a fused node absorbs the Transpose by
\* [0,2,1,3] that is the only reader of the root: output_trans0213 is true
\* and the fused node takes the place of the transpose; without such a
\* transpose output_trans0213 is false and the fused node takes the place of
\* the root.
EveryRuleAbsorbsTranspose ==
    [][(last'.rule \in CreatingRules /\ ret' = "true")
       => IF TransposedBy(nodes, last'.root) # 0
          THEN TookPlaceOf(nodes, nodes', TransposedBy(nodes, last'.root), TRUE)
          ELSE TookPlaceOf(nodes, nodes', last'.root, FALSE)]_vars

\* C15 amended: RoPEFusionGPTJ absorbs the Transpose by [0,2,1,3] that is the
\* only reader of the root: output_trans0213 is true and the fused node takes
\* the place of the transpose.  In every other case, and in every other rule
\* that makes a fused node, output_trans0213 is false and the fused node
\* takes the place of the root.
OnlyGPTJAbsorbsTranspose ==
    [][(last'.rule \in CreatingRules /\ ret' = "true")
       => IF last'.rule = "RoPEFusionGPTJ" /\ TransposedBy(nodes, last'.root) # 0
          THEN TookPlaceOf(nodes, nodes', TransposedBy(nodes, last'.root), TRUE)
          ELSE TookPlaceOf(nodes, nodes', last'.root, FALSE)]_vars

\* C15 witness: GPT-J took the transpose 33 in: the fused node has
\* output_trans0213 and is what the Result reads
GPTJTransposeAbsorbed ==
    /\ scen.kind = "gptj" /\ scen.trans /\ last.rule = "RoPEFusionGPTJ" /\ ret = "true"
    /\ nodes[Len(nodes)].cfg.output_trans0213 /\ Consumers(nodes, 33) = {}
    /\ nodes[34].ins = <<O(Len(nodes))>>

\* the operators of the graph a match bound to the template, from the root
\* down to the tensors bound as inputs (these and the constants left out)
MatchedOperators(g, P, pm) ==
    {pm[n][1] : n \in {c \in DOMAIN pm : P[c].k # "any" /\ g[pm[c][1]].op # "Constant"}}

\* C16: the fused node a rule makes has the runtime info of every operator
\* the match bound, from the inputs to the root, among its sources.
EveryMatchedOperatorIsSource ==
    [][(last'.rule \in CreatingRules /\ ret' = "true")
       => MatchedOperators(nodes, Current.pat, last'.pm) \subseteq nodes'[Len(nodes')].rt]_vars

\* C16: the node Flux made has the root among its sources and not the
\* Multiply by -1 (node 9) the match bound
FluxNegateNotSource ==
    /\ scen.kind = "flux" /\ last.rule = "RoPEFusionFlux" /\ ret = "true"
    /\ 17 \in nodes[Len(nodes)].rt /\ 9 \in {last.pm[n][1] : n \in DOMAIN last.pm}
    /\ 9 \notin nodes[Len(nodes)].rt

\* C17: the callback of a rule that matched ends by returning true or false:
\* no pattern_map.at(...) it makes is of a pattern node the match left
\* unbound.
CallbackAlwaysReturns == last.matched => ret \in {"true", "false"}

\* C17: Qwen with the tables sliced and the halves unpacked by Reshape: with
\* no position_ids bound the callback asks pattern_map.at for the Squeeze
\* alternatives, which the match did not bind
QwenUnboundSqueezeLookup ==
    /\ scen.kind = "qwen" /\ scen.unpack = "reshape"
    /\ last.rule = "RoPEFusionQwen" /\ last.matched /\ ret = "throw"
    /\ "position_ids" \notin DOMAIN last.pm
    /\ "ListUnpack_Squeeze_0_1" \in DOMAIN last.pm
    /\ "ListUnpack_586_Squeeze_0" \notin DOMAIN last.pm
    /\ Fused(nodes) = {}

\* C18: a firing of RoPEFusionCosSinPreprocess, RoPEFusionIOSlicing or
\* RoPEFusionPreprocess constructs no node: the graph has the nodes it had,
\* the same of them are fused nodes, and the same fused nodes are in use.
AmendingConstructsNothing ==
    [][last'.rule \in AmendingRules
       => /\ DOMAIN nodes' = DOMAIN nodes
          /\ Fused(nodes') = Fused(nodes)
          /\ Fused(nodes') \cap Live(nodes', model) = Fused(nodes) \cap Live(nodes, model)]_vars

\* C18 witness: RoPEFusionIOSlicing rewired the one fused node, 38, to the
\* unsliced data and put it in the place of the Concat
IOSlicingAmendedInPlace ==
    /\ scen.kind = "amend" /\ last.rule = "RoPEFusionIOSlicing" /\ ret = "true"
    /\ Fused(nodes) = {38} /\ Len(nodes) = 38 /\ 38 \in Live(nodes, model)
    /\ Consumers(nodes, last.root) = {}

\* the nodes a traversal has still to offer
Pending(queue) == {queue[i] : i \in DOMAIN queue}

\* C19 as stated: every rule that makes a fused node registers it, so that
\* the traversal has it to offer again.
EveryCreatorRegisters ==
    [][(last'.rule \in CreatingRules /\ ret' = "true") => Len(nodes') \in Pending(todo')]_vars

\* C19 amended: RoPEFusionFlux and RoPEFusionGPTNEOX register the node they
\* made, which the traversal of the same rule then has to offer;
\* RoPEFusionGPTJ, ChatGLM, ChatGLMHF and Qwen register nothing.  The
\* traversals of RoPEFusionCosSinPreprocess and RoPEFusionPreprocess start
\* with every fused node in use to offer, whichever rule made it.
FluxAndNeoxRegister ==
    [][/\ (last'.rule \in CreatingRules /\ ret' = "true")
          => /\ Len(nodes') \in Pending(todo')
                <=> last'.rule \in {"RoPEFusionFlux", "RoPEFusionGPTNEOX"}
             /\ Pending(todo') \ {Len(nodes')} = Pending(Tail(todo))
       /\ (pass' # pass /\ pass' \in PositionsOf({"RoPEFusionCosSinPreprocess", "RoPEFusionPreprocess"}))
          => Fused(nodes) \cap Live(nodes, model) \subseteq Pending(todo')]_vars

\* C19 witness: GPTNEOX made node 38 and registered it; it is the next node
\* its traversal offers
NeoxRegisteredFused ==
    /\ scen.kind = "amend" /\ last.rule = "RoPEFusionGPTNEOX" /\ ret = "true"
    /\ Len(nodes) = 38 /\ nodes[38].op = "RoPE" /\ todo # <<>> /\ Head(todo) = 38

\* the pass manager is a loop: in a call of run_on_model it takes the next
\* step, an offer or the start of the next rule, until the last rule is done
\* or a callback throws; the caller makes its calls
ManagerStep ==
    /\ (pass = 0 /\ run < MaxRuns) \/ (pass > 0 /\ ret # "throw")
    /\ tick' = ~tick

FairSpec == Spec /\ WF_tick(ManagerStep)

\* the nodes the fused node n is computed from
Ancestors(g, n) == Reach(g, {n}) \ {n}

\* C20: a call of run_on_model that has started comes to its end (or is left
\* by an exception); a firing of an amending rule, which registers the fused
\* node again, leaves that node with fewer nodes to be computed from than it
\* had, so it cannot fire on the node without end.
RunTerminates ==
    /\ (pass > 0) ~> (pass = 0 \/ ret = "throw")
    /\ [][(last'.rule \in AmendingRules /\ ret' = "true")
          => /\ Pending(todo') \ Pending(Tail(todo)) \subseteq Fused(nodes)
             /\ \A n \in Pending(todo') \ Pending(Tail(todo)) :
                    /\ Ancestors(nodes', n) \subseteq Ancestors(nodes, n)
                    /\ Ancestors(nodes', n) # Ancestors(nodes, n)]_vars

\* C20 witness: in the run that amended it, node 38 was offered to
\* RoPEFusionPreprocess again and did not match a second time
PreprocessReofferedNoMatch ==
    /\ scen.kind = "amend" /\ run = 1 /\ Running("RoPEFusionPreprocess")
    /\ last.rule = "RoPEFusionPreprocess" /\ last.root = 38 /\ ~last.matched
    /\ nodes[38].cfg.input_trans0213 /\ todo = <<>>

----------------------------------------------------------------------------
\* the type tags reachable from the tag of class c through the parent chain
TagChain(cl, c) ==
    LET RECURSIVE Up(_)
        Up(t) == IF t = 0 THEN {} ELSE {t} \cup Up(cl[t].parent)
    IN  Up(c)

\* C21: is_type<T>(v) is true iff v is non-null and the type tag of v is T or
\* has T among its ancestors through the parent chain; AsTypePtr::call and
\* as_type_ptr<T> return v exactly when is_type<T>(v) holds and a null
\* pointer otherwise, so a null or unrelated value never yields a non-null
\* result.
CastIffIsType ==
    /\ cast.fn = "is_type"
          => (cast.is <=> (cast.value # 0 /\ cast.Type \in TagChain(classes, cast.value)))
    /\ cast.fn \in {"AsTypePtr::call", "as_type_ptr"}
          => cast.ptr = (IF is_type(classes, cast.Type, cast.value) THEN cast.value ELSE 0)

\* C21 witness: as_type_ptr to a base class, asked of an object whose class
\* derives from it but whose type tag names no parent, returns the object
DerivedWithoutParentTagCast ==
    /\ cast.fn = "as_type_ptr" /\ cast.value # 0 /\ cast.value # cast.Type
    /\ classes[cast.value].base = cast.Type /\ classes[cast.value].parent = 0
    /\ ~classes[cast.Type].ext
    /\ cast.ptr = cast.value

\* the values the occurrences of the symbol s have in the match pm of P
SeenOf(g, P, pm, s) == {a[3] : a \in {b \in Observations(g, P, pm) : b[1] = s /\ b[2] = 1}}

\* C22: RoPEFusionIOSlicing returns true only if input 0 of the Concat at the
\* root is a fused node whose rotary_ndims is the slice length ndims; if it
\* is not, the callback returns false and the graph is unchanged.  When it
\* returns true, input 0 of the fused node is the unsliced data, every reader
\* of the Concat reads the fused node instead, and the configuration of the
\* fused node is what it was.
IOSlicingFiresOnRotaryWidth ==
    [][(last'.rule = "RoPEFusionIOSlicing" /\ last'.matched)
       => LET root == last'.root
              rope == Feeder(nodes, root, 1)
              seen == SeenOf(nodes, IOSlicingPattern, last'.pm, "ndims")
          IN  /\ (nodes[rope].op # "RoPE" \/ nodes[rope].cfg.rotary_ndims \notin seen)
                    => (ret' = "false" /\ nodes' = nodes)
              /\ ret' = "true"
                    => /\ nodes[rope].op = "RoPE" /\ seen = {nodes[rope].cfg.rotary_ndims}
                       /\ nodes'[rope].ins[1] = last'.pm["data"]
                       /\ nodes'[rope].cfg = nodes[rope].cfg
                       /\ Tail(nodes'[rope].ins) = Tail(nodes[rope].ins)
                       /\ Consumers(nodes, root) # {}
                       /\ Consumers(nodes', root) = {}
                       /\ Consumers(nodes, root) \subseteq Consumers(nodes', rope)
                       /\ \A n \in DOMAIN nodes \ ({rope} \cup Consumers(nodes, root)) :
                              nodes'[n] = nodes[n]]_vars

\* C22 witness: the fused node 38 with rotary_ndims 4 behind a slice of
\* length 4 now reads the unsliced data, and the Result reads the fused node
IOSlicingReadsUnslicedData ==
    /\ scen.kind = "amend" /\ scen.io \in {"split", "slice"}
    /\ last.rule = "RoPEFusionIOSlicing" /\ last.matched /\ ret = "true"
    /\ nodes[38].cfg.rotary_ndims \in SeenOf(nodes, IOSlicingPattern, last.pm, "ndims")
    /\ nodes[38].ins[1] = last.pm["data"]
    /\ Consumers(nodes, 38) # {} /\ Consumers(nodes, last.root) = {}

\* the position-index tensor a match of RoPEFusionCosSinPreprocess bound: the
\* rank-4 one if there is one, else the rank-2 one, else none (<<0, 0>>)
PositionsBound(pm) ==
    IF "gather_positions" \in DOMAIN pm THEN pm["gather_positions"]
    ELSE IF "gather_positions_2d" \in DOMAIN pm THEN pm["gather_positions_2d"]
    ELSE <<0, 0>>

\* C23: on a match of RoPEFusionCosSinPreprocess inputs 1 and 2 of the fused
\* node become the matched f32 constant tables; with a position-index tensor
\* bound (the rank-4 one, else the rank-2 one) one input is appended, at the
\* index that was the input count, gather_position_arg_id is that index, and
\* the input at gather_position_arg_id is the position-index tensor; input 0
\* and every other field of the configuration stay, and so does every other
\* node.
CosSinTablesAndPositions ==
    [][(last'.rule = "RoPEFusionCosSinPreprocess" /\ last'.matched)
       => LET r == last'.root
              pm == last'.pm
              was == nodes[r]
              is == nodes'[r]
              count == Len(was.ins)
              positions == PositionsBound(pm)
          IN  /\ ret' = "true"
              /\ is.ins[1] = was.ins[1]
              /\ is.ins[2] = pm["cos_const"] /\ is.ins[3] = pm["sin_const"]
              /\ \A c \in {pm["cos_const"][1], pm["sin_const"][1]} :
                     nodes[c].op = "Constant" /\ nodes[c].et = "f32"
              /\ IF positions = <<0, 0>>
                 THEN Len(is.ins) = count /\ is.cfg = was.cfg
                 ELSE /\ Len(is.ins) = count + 1
                      /\ is.cfg = [was.cfg EXCEPT !.gather_position_arg_id = count]
                      /\ is.ins[is.cfg.gather_position_arg_id + 1] = positions
                      /\ nodes[positions[1]].et = "i32"
                      /\ Len(ShapeOf(nodes, positions)) =
                            (IF "gather_positions" \in DOMAIN pm THEN 4 ELSE 2)
              /\ \A i \in 4..count : is.ins[i] = was.ins[i]
              /\ \A n \in DOMAIN nodes \ {r} : nodes'[n] = nodes[n]
              /\ DOMAIN nodes' = DOMAIN nodes]_vars

\* C23 witness: cos gathered at rank-4 positions (node 10) and sin at rank-2
\* position ids (node 5): the fused node 38 got the rank-4 tensor as input 3
CosSinRank4PositionsAttached ==
    /\ scen.kind = "amend" /\ scen.tab = "mixed"
    /\ last.rule = "RoPEFusionCosSinPreprocess" /\ last.root = 38 /\ ret = "true"
    /\ {"gather_positions", "gather_positions_2d"} \subseteq DOMAIN last.pm
    /\ nodes[38].ins = <<nodes[38].ins[1], O(2), O(3), O(10)>>
    /\ nodes[38].cfg.gather_position_arg_id = 3

\* the one value the symbol s has in the match pm of P; -1 if it has none or
\* several
TheValue(g, P, pm, s) ==
    IF Cardinality(SeenOf(g, P, pm, s)) = 1 THEN CHOOSE v \in SeenOf(g, P, pm, s) : TRUE ELSE -1

\* C24: the fused node of RoPEFusionChatGLM has the window [0, total_size_q)
\* with split_output_id 0 and [total_size_q, total_size_q + total_size_k)
\* with split_output_id 1; that of RoPEFusionQwen has [0, head_cnt * head_size)
\* and [head_cnt * head_size, 2 * head_cnt * head_size).  In every case
\* slice_start <= slice_stop, and the key window starts where the query
\* window of the same tensor stops.
SliceWindowOrdered ==
    [][(last'.rule \in {"RoPEFusionChatGLM", "RoPEFusionQwen"} /\ ret' = "true")
       => LET cfg == nodes'[Len(nodes')].cfg
              id == Current.split_output_id
              q == IF last'.rule = "RoPEFusionQwen" THEN cfg.head_cnt * cfg.head_size
                   ELSE TheValue(nodes, Current.pat, last'.pm, "total_size_q")
              k == IF last'.rule = "RoPEFusionQwen" THEN cfg.head_cnt * cfg.head_size
                   ELSE TheValue(nodes, Current.pat, last'.pm, "total_size_k")
          IN  /\ Len(nodes') = Len(nodes) + 1
              /\ id = 0 => (cfg.slice_start = 0 /\ cfg.slice_stop = q)
              /\ id = 1 => (cfg.slice_start = q /\ cfg.slice_stop = q + k)
              /\ cfg.slice_start <= cfg.slice_stop]_vars

\* C24 witness: the split lengths {16, -1, 8} give the key the rest of the
\* tensor; RoPEFusionChatGLM with split_output_id 1 made a fused node with
\* the window [16, 15)
KeyWindowInverted ==
    /\ scen.kind = "chatglm" /\ scen.rest = "k" /\ scen.id = 1
    /\ last.rule = "RoPEFusionChatGLM" /\ ret = "true"
    /\ nodes[4].val = <<16, -1, 8>>
    /\ nodes[Len(nodes)].op = "RoPE"
    /\ nodes[Len(nodes)].cfg.slice_start = 16 /\ nodes[Len(nodes)].cfg.slice_stop = 15

\* the values validator[s] can stand for after the match pm of P: those of
\* the occurrences of s, and 0 for a symbol that occurs in no matched constant
ResolvedOf(g, P, pm, s) == IF SeenOf(g, P, pm, s) = {} THEN {0} ELSE SeenOf(g, P, pm, s)

\* the triples (A, B, C) of a ChatGLM export with head_cnt heads
ReshapeTriples(head_cnt) == {<<-1, head_cnt, 1>>, <<1, -1, head_cnt>>, <<0, 0, 0>>}

\* C25: a match of RoPEFusionChatGLM is fused only if the triple (A, B, C) of
\* the reshape target of y_even and y_odd is (-1, head_cnt, 1),
\* (1, -1, head_cnt) or (0, 0, 0); with any other triple the callback returns
\* false and the graph is unchanged.  With y_even and y_odd matched as
\* Unsqueeze, A, B and C occur in no matched constant and resolve to 0.
ChatGLMReshapeTripleChecked ==
    [][(last'.rule = "RoPEFusionChatGLM" /\ last'.matched)
       => LET P == Current.pat
              pm == last'.pm
              triples == ResolvedOf(nodes, P, pm, "A") \X ResolvedOf(nodes, P, pm, "B")
                         \X ResolvedOf(nodes, P, pm, "C")
              legal == UNION {ReshapeTriples(h) : h \in ResolvedOf(nodes, P, pm, "head_cnt")}
          IN  /\ ret' = "true" => (Cardinality(triples) = 1 /\ triples \subseteq legal)
              /\ triples \cap legal = {} => (ret' = "false" /\ nodes' = nodes)
              /\ "y_even_unsqueeze" \in DOMAIN pm /\ "y_odd_unsqueeze" \in DOMAIN pm
                    => triples = {<<0, 0, 0>>}]_vars

\* C25 witness: the reshape target (0, -1, head_cnt) is none of the three and
\* the graph was left as it was
ChatGLMOtherTripleRejected ==
    /\ scen.kind = "chatglm" /\ scen.abc = "other"
    /\ last.rule = "RoPEFusionChatGLM" /\ last.matched /\ ret = "false"
    /\ nodes[32].val = <<0, -1, 2, 2, 1>> /\ nodes[37].val = nodes[32].val
    /\ SeenOf(nodes, Current.pat, last.pm, "A") = {0}
    /\ SeenOf(nodes, Current.pat, last.pm, "B") = {-1}
    /\ Fused(nodes) = {}

\* C26: RoPEFusionChatGLM matched at the flattening Reshape, with no Concat
\* of an unrotated rest in the match, fuses only if rotary_ndims is
\* head_size; if it is not, the callback returns false and the graph is
\* unchanged.  Matched at the Concat it fuses with rotary_ndims the width of
\* the rotated slice, which head_size may exceed.
FullRotationNeedsHeadSize ==
    [][(last'.rule = "RoPEFusionChatGLM" /\ last'.matched)
       => LET P == Current.pat
              pm == last'.pm
              ndims == ResolvedOf(nodes, P, pm, "ndims")
              head_size == ResolvedOf(nodes, P, pm, "head_size")
              fused == nodes'[Len(nodes')]
          IN  /\ nodes[last'.root].op \in {"Reshape", "Concat"}
              /\ (nodes[last'.root].op = "Reshape" /\ ndims \cap head_size = {})
                    => (ret' = "false" /\ nodes' = nodes)
              /\ (nodes[last'.root].op = "Reshape" /\ ret' = "true")
                    => (/\ "cat_Concat_505" \notin DOMAIN pm
                        /\ fused.op = "RoPE" /\ fused.cfg.rotary_ndims = fused.cfg.head_size
                        /\ ndims = {fused.cfg.rotary_ndims} /\ head_size = ndims)
              /\ (nodes[last'.root].op = "Concat" /\ ret' = "true")
                    => (/\ fused.op = "RoPE" /\ ndims = {fused.cfg.rotary_ndims}
                        /\ head_size = {fused.cfg.head_size}
                        /\ fused.cfg.rotary_ndims <= fused.cfg.head_size)]_vars

\* C26 witness: the Reshape that flattens a rotation of 4 of the 8 elements of
\* a head is what the Result reads; the callback returned false
FullRotationOfHalfRejected ==
    /\ scen.kind = "chatglm" /\ scen.full /\ scen.S = 8
    /\ last.rule = "RoPEFusionChatGLM" /\ last.matched /\ ret = "false"
    /\ nodes[last.root].op = "Reshape" /\ nodes[45].ins = <<O(last.root)>>
    /\ ResolvedOf(nodes, Current.pat, last.pm, "ndims") = {4}
    /\ ResolvedOf(nodes, Current.pat, last.pm, "head_size") = {8}
    /\ Fused(nodes) = {}

\* C27: within a call of run_on_model the state of RoPEShareCosSin is written
\* once: the first match sets the constant and the two shared inputs
\* together, to the nodes it bound, and no later match, accepted or
\* rejected, changes them; the cos seed and the sin seed are each set once,
\* to the root of the match that set them.
ShareStateWrittenOnce ==
    [][run' = run
       => /\ (m_inv_freq = 0) <=> (m_shared_inputs = <<0, 0>>)
          /\ m_inv_freq # 0
                => (m_inv_freq' = m_inv_freq /\ m_shared_inputs' = m_shared_inputs)
          /\ (m_inv_freq = 0 /\ ShareMatched)
                => /\ m_inv_freq' = last'.pm["const_inv_freq"][1]
                   /\ m_shared_inputs' = <<last'.pm["inputs0"][1], last'.pm["inputs1"][1]>>
                   /\ 0 \notin {m_inv_freq', m_shared_inputs'[1], m_shared_inputs'[2]}
          /\ ~ShareMatched => UNCHANGED share
          /\ m_shared_cos0 # 0 => m_shared_cos0' = m_shared_cos0
          /\ m_shared_sin0 # 0 => m_shared_sin0' = m_shared_sin0
          /\ \A seed \in {m_shared_cos0', m_shared_sin0'} \ {m_shared_cos0, m_shared_sin0} :
                 seed = last'.root
          /\ Cardinality({m_shared_cos0', m_shared_sin0'} \ {m_shared_cos0, m_shared_sin0}) <= 1]_vars

\* C27 witness: the second layer reads another input; both of its roots were
\* matched and rejected, and the state is that of the first layer
ShareStateOfFirstLayerKept ==
    /\ scen.kind = "share" /\ scen.in2 = "in0" /\ scen.c1 = "same" /\ scen.c2 = "same"
    /\ last.rule = "RoPEShareCosSin" /\ last.root = 36 /\ last.matched /\ ret = "false"
    /\ last.pm["inputs0"][1] = 3 /\ last.pm["const_inv_freq"][1] = 23
    /\ m_inv_freq = 7 /\ m_shared_inputs = <<1, 2>>
    /\ m_shared_cos0 = 19 /\ m_shared_sin0 = 20

----------------------------------------------------------------------------

\* a manager the caller keeps: run_passes runs the rule objects it holds, so
\* the rules of the call before see the model again with their state
RunPasses ==
    /\ pass = 0 /\ run < MaxRuns
    /\ \E k \in Models(nodes) :
          /\ model' = k
          /\ todo' = Candidates(nodes, k, Registered(support_2d_rope)[1])
    /\ run' = run + 1
    /\ pass' = 1
    /\ tick' = ~tick
    /\ last' = NoCall /\ ret' = "none"
    /\ UNCHANGED <<nodes, scen, support_2d_rope, done, share, typesys>>

KeptNext ==
    \/ RunPasses
    \/ NextPass
    \/ RoPEFusionFlux
    \/ RoPEFusionGPTNEOX
    \/ RoPEFusionGPTJ
    \/ RoPEFusionCosSinPreprocess
    \/ RoPEFusionIOSlicing
    \/ RoPEFusionPreprocess
    \/ RoPEFusionChatGLM
    \/ RoPEFusionChatGLMHF
    \/ RoPEFusionQwen
    \/ RoPEShareCosSin

KeptSpec == Init /\ [][KeptNext]_vars

\* a step in which RoPEShareCosSin called replace_node
ShareReplaced == ShareMatched /\ ret' = "true"

PreprocessAmended == last'.rule = "RoPEFusionPreprocess" /\ ret' = "true"

\* C29: RoPEFusionPreprocess absorbs at most one input transpose per fused
\* node: it never amends a fused node whose input_trans0213 is already true,
\* so two transposes in a row, which cancel, never become a fused node with
\* input_trans0213 reading the input of the first, and a slice window the
\* rule has set is not overwritten by a later firing.
PreprocessAbsorbsOneTranspose ==
    [][PreprocessAmended
       => /\ ~nodes[last'.root].cfg.input_trans0213
          /\ nodes[last'.root].cfg.slice_stop # 0
                => /\ nodes'[last'.root].cfg.slice_start = nodes[last'.root].cfg.slice_start
                   /\ nodes'[last'.root].cfg.slice_stop = nodes[last'.root].cfg.slice_stop
          /\ (scen.kind = "amend" /\ scen.pre = "trans2") => nodes'[last'.root].ins[1] # O(1)]_vars

\* C29 witness: of two transposes in a row the rule has absorbed the second
\* and then the first: the fused node reads the input of the first with
\* input_trans0213 set
PreprocessAbsorbedBothTransposes ==
    /\ scen.kind = "amend" /\ scen.pre = "trans2"
    /\ last.rule = "RoPEFusionPreprocess" /\ last.matched /\ ret = "true"
    /\ "input_to_trans" \in DOMAIN last.pm /\ last.pm["input_to_trans"] = O(1)
    /\ nodes[last.root].op = "RoPE"
    /\ nodes[last.root].cfg.input_trans0213
    /\ nodes[last.root].ins[1] = O(1)
    /\ nodes[38].op = "Transpose" /\ nodes[19].ins[1] = O(38)

\* the sequence 0,0,1,1,2,2,...: element i (from 0) is floor(i/2)
Interleaved(vec) == \A i \in 1..Len(vec) : vec[i] = (i - 1) \div 2

\* C30: const_idx_predicate reads only elements of the constant, of any
\* length, odd lengths included: whatever lies behind the vector, it is true
\* exactly for an i32 constant holding 0,0,1,1,2,2,... and false for every
\* node that is not a constant, on every node of a graph that
\* repeat_interleave_pattern is matched against.
ConstIdxReadsWithinVector ==
    [][last'.rule \in {"RoPEFusionGPTJ", "RoPEFusionChatGLMHF"}
       => \A n \in DOMAIN nodes :
              (nodes[n].op # "Constant" \/ nodes[n].et = "i32")
                  => \A oob \in OutOfBounds :
                         const_idx_predicate(nodes[n], oob)
                             = (nodes[n].op = "Constant" /\ Interleaved(nodes[n].val))]_vars

\* C30 witness: the GPT-J graph with the one-element index constant [0] was
\* offered to RoPEFusionGPTJ and rejected, by the element read behind the
\* vector: with a 0 there the same root matches
ConstIdxOddLengthRejected ==
    /\ scen.kind = "gptj" /\ scen.idx = "odd"
    /\ Running("RoPEFusionGPTJ")
    /\ last.rule = "RoPEFusionGPTJ" /\ ~last.matched /\ ret = "none"
    /\ nodes[11].op = "Constant" /\ nodes[11].et = "i32" /\ nodes[11].val = <<0>>
    /\ Interleaved(nodes[11].val)
    /\ Match(nodes, WithPattern(Registered(support_2d_rope)[pass]), last.root, [oob |-> 0]).ok
    /\ ~Match(nodes, WithPattern(Registered(support_2d_rope)[pass]), last.root, [oob |-> 1]).ok

====
